---- MODULE Spec2Model ----
(***************************************************************************)
(* Lending market ledger and liquidation engine of the Morpho curation     *)
(* scripts.                                                                *)
(*                                                                         *)
(* The scripts (supplyToMarket, withdrawFromMarket, borrowFromMarket,      *)
(* repayLoan, liquidatePosition, supplyCollateral, the mock oracle's       *)
(* setPrice) read the market and the caller's position, validate the       *)
(* request client-side and then submit one transaction.  What the          *)
(* transaction does to the market is the ledger of spec.md (sections 4.1   *)
(* to 4.6); the ledger operators below follow that text, the script        *)
(* actions follow the TypeScript.                                          *)
(*                                                                         *)
(* Fixed-point scales are kept symbolic: WAD is 10^WadDigits and the       *)
(* oracle price scale is 10^(PriceDigits + loanDecimals - collDecimals).   *)
(* The sources use 18 and 36 digits; the model keeps fewer digits so that  *)
(* every product stays inside TLC's integers.  All ratios (lltv, fee,      *)
(* rates) are written as fractions of WAD.                                 *)
(***************************************************************************)
EXTENDS Integers, Sequences, FiniteSets, TLC

\* ------------------------------------------------------------------ bounds
WadDigits == 1          \* fractional digits of WAD kept in the model
PriceDigits == 1        \* digits standing for the 36 of the oracle scale
MaxAmount == 2          \* largest amount a caller passes to a script
MaxTotal == 5           \* cap on the pool totals
MaxCollateral == 1      \* cap on one account's collateral
MaxTime == 1            \* the clock stops here

\* --------------------------------------------------------- fixed-point math
WAD == 10 ^ WadDigits

mulDivDown(a, b, c) == (a * b) \div c

mulDivUp(a, b, c) == (a * b + (c - 1)) \div c

Min(a, b) == IF a < b THEN a ELSE b

\* ------------------------------------------------------------------- state
Users == {"A", "B"}
\* Both users lend; B is the one who posts collateral and borrows.
Borrowers == {"B"}
FeeRecipient == "F"
Accounts == Users \cup {FeeRecipient}

VARIABLES
    created,      \* the market exists on chain (createMarket was mined)
    params,       \* [lltv, loanDecimals, collDecimals] of the market
    market,       \* [totalSupplyAssets, totalSupplyShares, totalBorrowAssets,
                  \*  totalBorrowShares, lastUpdate, fee]
    position,     \* account -> [supplyShares, borrowShares, collateral]
    oraclePrice,  \* what the oracle's price() returns now
    now,          \* block timestamp
    flow,         \* assets supplied minus assets withdrawn by the runs that
                  \* succeeded (and whether one withdrew), kept while
                  \* nothing has been borrowed
    probe,        \* one evaluation of isLiquidatable: arguments and answer
    pending       \* the script that has read from the chain and not yet
                  \* sent its transaction, with what it read

vars ==
    <<created, params, market, position, oraclePrice, now, flow, probe, pending>>

EmptyMarket ==
    [totalSupplyAssets |-> 0, totalSupplyShares |-> 0,
     totalBorrowAssets |-> 0, totalBorrowShares |-> 0,
     lastUpdate |-> 0, fee |-> 0]

EmptyPosition == [supplyShares |-> 0, borrowShares |-> 0, collateral |-> 0]

\* A ledger call's outcome: the error kind ("" when it succeeded) and the
\* market and positions it leaves.
Outcome(e, m, p) == [err |-> e, market |-> m, position |-> p]

\* -------------------------------------------------- oracle price (spec 4.2)
\* 10^decimalAdjustment, decimalAdjustment = 36 + loanDecimals - collDecimals.
PriceScale(ld, cd) == 10 ^ (PriceDigits + ld - cd)

toLoanAssets(collateralAmount, price, scale) ==
    mulDivDown(collateralAmount, price, scale)

toCollateralAmount(loanAssets, price, scale) ==
    mulDivDown(loanAssets, scale, price)

\* ------------------------------------------------ share conversions (4.4/4.5)
sharesToAssetsUp(shares, totalAssets, totalShares) ==
    IF totalShares = 0 THEN 0 ELSE mulDivUp(shares, totalAssets, totalShares)

sharesToAssetsDown(shares, totalAssets, totalShares) ==
    IF totalShares = 0 THEN 0 ELSE mulDivDown(shares, totalAssets, totalShares)

currentDebt(pos, m) ==
    sharesToAssetsUp(pos.borrowShares, m.totalBorrowAssets, m.totalBorrowShares)

currentSupply(pos, m) ==
    sharesToAssetsDown(pos.supplyShares, m.totalSupplyAssets, m.totalSupplyShares)

\* ------------------------------------------------ interest accrual (spec 4.3)
Utilization(m) ==
    IF m.totalSupplyAssets = 0 THEN 0
    ELSE mulDivDown(m.totalBorrowAssets, WAD, m.totalSupplyAssets)

\* The rate model is a capability of the caller; this one charges 25% a
\* second below 90% utilization and 50% a second from there on.
borrowRatePerSecond(utilization) ==
    IF 10 * utilization >= 9 * WAD THEN WAD \div 2 ELSE WAD \div 4

assetsDelta(m, t) ==
    mulDivDown(m.totalBorrowAssets,
               borrowRatePerSecond(Utilization(m)) * (t - m.lastUpdate), WAD)

\* An accrual that leaves the last-accrual timestamp where it was.
accrueKeepsTimestamp(m, p, t) ==
    LET delta == assetsDelta(m, t)
        toSupply == mulDivDown(delta, WAD - m.fee, WAD)
        feeRemainder == delta - toSupply
        supplyAfter == m.totalSupplyAssets + toSupply
        feeShares ==
            IF feeRemainder = 0 THEN 0
            ELSE IF m.totalSupplyShares = 0 \/ supplyAfter = 0 THEN feeRemainder
            ELSE mulDivDown(feeRemainder, m.totalSupplyShares, supplyAfter)
    IN  [market |->
             [m EXCEPT !.totalBorrowAssets = @ + delta,
                       !.totalSupplyAssets = supplyAfter,
                       !.totalSupplyShares = @ + feeShares],
         position |->
             [p EXCEPT ![FeeRecipient].supplyShares = @ + feeShares]]

\* The market and the positions after interest has accrued up to time t:
\* borrow grows by the delta, supply by delta * (1 - fee), and the fee
\* remainder is minted to the fee recipient as supply shares.
\* An accrual that adds the fee shares to the total and credits nobody.
accrueCreditsNobody(m, p, t) ==
    LET delta == assetsDelta(m, t)
        toSupply == mulDivDown(delta, WAD - m.fee, WAD)
        feeRemainder == delta - toSupply
        supplyAfter == m.totalSupplyAssets + toSupply
        feeShares ==
            IF feeRemainder = 0 THEN 0
            ELSE IF m.totalSupplyShares = 0 \/ supplyAfter = 0 THEN feeRemainder
            ELSE mulDivDown(feeRemainder, m.totalSupplyShares, supplyAfter)
    IN  [market |->
             [m EXCEPT !.totalBorrowAssets = @ + delta,
                       !.totalSupplyAssets = supplyAfter,
                       !.totalSupplyShares = @ + feeShares,
                       !.lastUpdate = t],
         position |-> p]

accrue(m, p, t) ==
    LET delta == assetsDelta(m, t)
        toSupply == mulDivDown(delta, WAD - m.fee, WAD)
        feeRemainder == delta - toSupply
        supplyAfter == m.totalSupplyAssets + toSupply
        feeShares ==
            IF feeRemainder = 0 THEN 0
            ELSE IF m.totalSupplyShares = 0 \/ supplyAfter = 0 THEN feeRemainder
            ELSE mulDivDown(feeRemainder, m.totalSupplyShares, supplyAfter)
    IN  [market |->
             [m EXCEPT !.totalBorrowAssets = @ + delta,
                       !.totalSupplyAssets = supplyAfter,
                       !.totalSupplyShares = @ + feeShares,
                       !.lastUpdate = t],
         position |->
             [p EXCEPT ![FeeRecipient].supplyShares = @ + feeShares]]

\* --------------------------------------------------- the ledger (spec 4.4)
\* Every operation accrues first and validates before it writes: a failed
\* call returns the market and the positions it was given.
LedgerSupply(m0, p0, exists, acct, assets, t) ==
    IF ~exists THEN Outcome("MarketNotFound", m0, p0)
    ELSE IF assets <= 0 THEN Outcome("InvalidAmount", m0, p0)
    ELSE
      LET a == accrue(m0, p0, t)
          m == a.market
          shares ==
              IF m.totalSupplyShares = 0 THEN assets
              ELSE mulDivDown(assets, m.totalSupplyShares, m.totalSupplyAssets)
      IN  IF m.totalSupplyShares # 0 /\ m.totalSupplyAssets = 0
          THEN Outcome("DivisionByZero", m0, p0)
          ELSE Outcome("",
                 [m EXCEPT !.totalSupplyAssets = @ + assets,
                           !.totalSupplyShares = @ + shares],
                 [a.position EXCEPT ![acct].supplyShares = @ + shares])

\* A withdraw that keeps the accrued interest when it turns the request down.
LedgerWithdrawKeepsAccrual(m0, p0, exists, acct, assets, t) ==
    IF ~exists THEN Outcome("MarketNotFound", m0, p0)
    ELSE IF assets <= 0 THEN Outcome("InvalidAmount", m0, p0)
    ELSE
      LET a == accrue(m0, p0, t)
          m == a.market
          shares == mulDivUp(assets, m.totalSupplyShares, m.totalSupplyAssets)
      IN  IF assets > m.totalSupplyAssets - m.totalBorrowAssets
          THEN Outcome("InsufficientLiquidity", m, a.position)
          ELSE IF a.position[acct].supplyShares < shares
          THEN Outcome("InsufficientShares", m, a.position)
          ELSE Outcome("",
                 [m EXCEPT !.totalSupplyAssets = @ - assets,
                           !.totalSupplyShares = @ - shares],
                 [a.position EXCEPT ![acct].supplyShares = @ - shares])

LedgerWithdraw(m0, p0, exists, acct, assets, t) ==
    IF ~exists THEN Outcome("MarketNotFound", m0, p0)
    ELSE IF assets <= 0 THEN Outcome("InvalidAmount", m0, p0)
    ELSE
      LET a == accrue(m0, p0, t)
          m == a.market
          shares == mulDivUp(assets, m.totalSupplyShares, m.totalSupplyAssets)
      IN  IF assets > m.totalSupplyAssets - m.totalBorrowAssets
          THEN Outcome("InsufficientLiquidity", m0, p0)
          ELSE IF a.position[acct].supplyShares < shares
          THEN Outcome("InsufficientShares", m0, p0)
          ELSE Outcome("",
                 [m EXCEPT !.totalSupplyAssets = @ - assets,
                           !.totalSupplyShares = @ - shares],
                 [a.position EXCEPT ![acct].supplyShares = @ - shares])

LedgerBorrow(m0, p0, exists, acct, assets, t) ==
    IF ~exists THEN Outcome("MarketNotFound", m0, p0)
    ELSE IF assets <= 0 THEN Outcome("InvalidAmount", m0, p0)
    ELSE
      LET a == accrue(m0, p0, t)
          m == a.market
          shares ==
              IF m.totalBorrowShares = 0 THEN assets
              ELSE mulDivUp(assets, m.totalBorrowShares, m.totalBorrowAssets)
      IN  IF assets > m.totalSupplyAssets - m.totalBorrowAssets
          THEN Outcome("InsufficientLiquidity", m0, p0)
          ELSE IF m.totalBorrowShares # 0 /\ m.totalBorrowAssets = 0
          THEN Outcome("DivisionByZero", m0, p0)
          ELSE Outcome("",
                 [m EXCEPT !.totalBorrowAssets = @ + assets,
                           !.totalBorrowShares = @ + shares],
                 [a.position EXCEPT ![acct].borrowShares = @ + shares])

\* The spec gives the shares a repayment burns and no rule for a payment
\* larger than the pool's debt: the borrow total stops at zero.
LedgerRepay(m0, p0, exists, acct, assets, t) ==
    IF ~exists THEN Outcome("MarketNotFound", m0, p0)
    ELSE IF assets <= 0 THEN Outcome("InvalidAmount", m0, p0)
    ELSE
      LET a == accrue(m0, p0, t)
          m == a.market
          shares == mulDivDown(assets, m.totalBorrowShares, m.totalBorrowAssets)
      IN  IF m.totalBorrowAssets = 0
          THEN Outcome("DivisionByZero", m0, p0)
          ELSE IF a.position[acct].borrowShares < shares
          THEN Outcome("InsufficientShares", m0, p0)
          ELSE Outcome("",
                 [m EXCEPT !.totalBorrowAssets =
                               IF assets > @ THEN 0 ELSE @ - assets,
                           !.totalBorrowShares = @ - shares],
                 [a.position EXCEPT ![acct].borrowShares = @ - shares])

LedgerSupplyCollateral(m0, p0, exists, acct, assets) ==
    IF ~exists THEN Outcome("MarketNotFound", m0, p0)
    ELSE IF assets <= 0 THEN Outcome("InvalidAmount", m0, p0)
    ELSE Outcome("", m0, [p0 EXCEPT ![acct].collateral = @ + assets])

\* ------------------------------------------- liquidation engine (spec 4.6)
\* The reference policy: half the debt may be repaid in one call, and the
\* liquidator's incentive is 1050/1000.
CloseFactor == WAD \div 2

evaluate(pos, m, lltv, price, scale) ==
    LET debt == currentDebt(pos, m)
        collateralValue == toLoanAssets(pos.collateral, price, scale)
        maxBorrowValue == mulDivDown(collateralValue, lltv, WAD)
        maxRepay == mulDivDown(debt, CloseFactor, WAD)
        seizable ==
            toCollateralAmount(mulDivDown(maxRepay, 1050, 1000), price, scale)
    IN  IF debt = 0
        THEN [liquidatable |-> FALSE, debt |-> 0, maxBorrowValue |-> maxBorrowValue,
              maxRepay |-> 0, maxSeize |-> 0]
        ELSE IF debt > maxBorrowValue
        THEN [liquidatable |-> TRUE, debt |-> debt,
              maxBorrowValue |-> maxBorrowValue, maxRepay |-> maxRepay,
              maxSeize |-> Min(seizable, pos.collateral)]
        ELSE [liquidatable |-> FALSE, debt |-> debt,
              maxBorrowValue |-> maxBorrowValue, maxRepay |-> 0, maxSeize |-> 0]

\* A liquidate that takes the collateral before the repayment is known to
\* go through.
LedgerLiquidateSeizesFirst(m0, p0, exists, lltv, scale, borrower, requestedRepay, requestedSeize, price, t) ==
    IF ~exists THEN Outcome("MarketNotFound", m0, p0)
    ELSE IF price <= 0 THEN Outcome("InvalidPrice", m0, p0)
    ELSE
      LET a == accrue(m0, p0, t)
          q == evaluate(a.position[borrower], a.market, lltv, price, scale)
          r == LedgerRepay(a.market, a.position, exists, borrower,
                           requestedRepay, t)
          seized == [p0 EXCEPT ![borrower].collateral = @ - requestedSeize]
      IN  IF ~q.liquidatable THEN Outcome("NotLiquidatable", m0, p0)
          ELSE IF requestedRepay > q.maxRepay \/ requestedSeize > q.maxSeize
          THEN Outcome("ExceedsMaxLiquidation", m0, p0)
          ELSE IF r.err # "" THEN Outcome(r.err, m0, seized)
          ELSE Outcome("", r.market,
                 [r.position EXCEPT ![borrower].collateral = @ - requestedSeize])

\* liquidate(position, market, requestedRepay, requestedSeize, price): all
\* preconditions first, then the seizure and the repayment in one write.
LedgerLiquidate(m0, p0, exists, lltv, scale, borrower, requestedRepay, requestedSeize, price, t) ==
    IF ~exists THEN Outcome("MarketNotFound", m0, p0)
    ELSE IF price <= 0 THEN Outcome("InvalidPrice", m0, p0)
    ELSE
      LET a == accrue(m0, p0, t)
          q == evaluate(a.position[borrower], a.market, lltv, price, scale)
          r == LedgerRepay(a.market, a.position, exists, borrower,
                           requestedRepay, t)
      IN  IF ~q.liquidatable THEN Outcome("NotLiquidatable", m0, p0)
          ELSE IF requestedRepay > q.maxRepay \/ requestedSeize > q.maxSeize
          THEN Outcome("ExceedsMaxLiquidation", m0, p0)
          ELSE IF r.err # "" THEN Outcome(r.err, m0, p0)
          ELSE Outcome("", r.market,
                 [r.position EXCEPT ![borrower].collateral = @ - requestedSeize])

\* A liquidation that takes what it seizes out of every account's
\* collateral, as from a pool.
LiquidateCallFromThePool(m0, p0, exists, lltv, scale, borrower, seizedAssets, repaidShares, price, t) ==
    LET a == accrue(m0, p0, t)
        requestedRepay ==
            sharesToAssetsUp(repaidShares, a.market.totalBorrowAssets,
                             a.market.totalBorrowShares)
        out == LedgerLiquidate(m0, p0, exists, lltv, scale, borrower,
                               requestedRepay, seizedAssets, price, t)
    IN  IF out.err # "" THEN out
        ELSE Outcome("", out.market,
               [x \in DOMAIN out.position |->
                   IF x = borrower THEN out.position[x]
                   ELSE [out.position[x] EXCEPT
                            !.collateral =
                                IF @ > seizedAssets THEN @ - seizedAssets
                                ELSE 0]])

LiquidateCall(m0, p0, exists, lltv, scale, borrower, seizedAssets, repaidShares, price, t) ==
    LET a == accrue(m0, p0, t)
        requestedRepay ==
            sharesToAssetsUp(repaidShares, a.market.totalBorrowAssets,
                             a.market.totalBorrowShares)
    IN  LedgerLiquidate(m0, p0, exists, lltv, scale, borrower, requestedRepay,
                        seizedAssets, price, t)

\* ============================================================ the scripts
\* What a script settles on before it sends anything: how the run ends
\* ("send" when the transaction goes out), the amounts it settled on and
\* whether an ERC-20 approve goes out first.
Plan(r, a, z, ap) == [result |-> r, amt |-> a, seize |-> z, approve |-> ap]

\* An amount as the environment gives it: the text and what parseUnits
\* makes of it.  "0.0" parses to zero units without being the text "0".
AmountIn(n) == [text |-> IF n = 0 THEN "0" ELSE "n", units |-> n]

ZeroPointZero == [text |-> "0.0", units |-> 0]

\* idToMarketParams of an unknown market is all zeros, which the scripts
\* take for "market does not exist".
marketExists(mp) == mp.lltv # 0

\* ------------------------------------------------------- supplyToMarket
\* The run without its look at SUPPLY_AMOUNT.
supplyPlanSkipsZeroCheck(m, exists, amtIn, userBalance, confirm, allowance) ==
    IF ~exists THEN Plan("MarketNotFound", amtIn.units, 0, FALSE)
    ELSE IF userBalance < amtIn.units
    THEN Plan("InsufficientBalance", amtIn.units, 0, FALSE)
    ELSE IF confirm # "y" THEN Plan("Cancelled", amtIn.units, 0, FALSE)
    ELSE Plan("send", amtIn.units, 0, allowance < amtIn.units)

\* A run that takes a market nobody has supplied to for an unknown one.
supplyPlanWantsSupplied(m, exists, amtIn, userBalance, confirm, allowance) ==
    IF amtIn.text = "0" THEN Plan("InvalidAmount", 0, 0, FALSE)
    ELSE IF ~exists \/ m.totalSupplyShares = 0
    THEN Plan("MarketNotFound", amtIn.units, 0, FALSE)
    ELSE IF userBalance < amtIn.units
    THEN Plan("InsufficientBalance", amtIn.units, 0, FALSE)
    ELSE IF confirm # "y" THEN Plan("Cancelled", amtIn.units, 0, FALSE)
    ELSE Plan("send", amtIn.units, 0, allowance < amtIn.units)

supplyPlan(m, exists, amtIn, userBalance, confirm, allowance) ==
    IF amtIn.text = "0" THEN Plan("InvalidAmount", 0, 0, FALSE)
    ELSE IF ~exists THEN Plan("MarketNotFound", amtIn.units, 0, FALSE)
    ELSE IF userBalance < amtIn.units
    THEN Plan("InsufficientBalance", amtIn.units, 0, FALSE)
    ELSE IF confirm # "y" THEN Plan("Cancelled", amtIn.units, 0, FALSE)
    ELSE Plan("send", amtIn.units, 0, allowance < amtIn.units)

\* A first supply that keeps one share back.
expectedSharesShortFirst(m, assets) ==
    IF m.totalSupplyAssets > 0 /\ m.totalSupplyShares > 0
    THEN (assets * m.totalSupplyShares) \div m.totalSupplyAssets
    ELSE assets - 1

\* The shares the script announces before it asks for confirmation.
expectedShares(m, assets) ==
    IF m.totalSupplyAssets > 0 /\ m.totalSupplyShares > 0
    THEN (assets * m.totalSupplyShares) \div m.totalSupplyAssets
    ELSE assets

\* --------------------------------------------------- withdrawFromMarket
\* The value of the shares rounded up instead of down.
calculateSupplyAssetsRoundsUp(supplyShares, totalSupplyShares, totalSupplyAssets) ==
    IF totalSupplyShares = 0 THEN 0
    ELSE (supplyShares * totalSupplyAssets + totalSupplyShares - 1)
             \div totalSupplyShares

calculateSupplyAssets(supplyShares, totalSupplyShares, totalSupplyAssets) ==
    IF totalSupplyShares = 0 THEN 0
    ELSE (supplyShares * totalSupplyAssets) \div totalSupplyShares

\* The liquidity check with the borrowed assets left out.
withdrawPlanForgetsBorrowed(m, pos, exists, amtIn, withdrawAll, selfCall, isAuthorized, useCurrentSupply, confirm) ==
    LET currentSupplyAssets ==
            calculateSupplyAssets(pos.supplyShares, m.totalSupplyShares,
                                  m.totalSupplyAssets)
        amt == IF withdrawAll \/ amtIn.units > currentSupplyAssets
               THEN currentSupplyAssets ELSE amtIn.units
        availableLiquidity == m.totalSupplyAssets
        sharesToBurn ==
            IF amt >= currentSupplyAssets THEN pos.supplyShares
            ELSE (amt * pos.supplyShares) \div currentSupplyAssets
    IN  IF amtIn.text = "0" /\ ~withdrawAll
        THEN Plan("InvalidAmount", 0, 0, FALSE)
        ELSE IF ~exists THEN Plan("MarketNotFound", amtIn.units, 0, FALSE)
        ELSE IF pos.supplyShares = 0 \/ currentSupplyAssets = 0
        THEN Plan("NoPosition", amtIn.units, 0, FALSE)
        ELSE IF ~withdrawAll /\ amtIn.units > currentSupplyAssets
                /\ useCurrentSupply # "y"
        THEN Plan("Cancelled", amtIn.units, 0, FALSE)
        ELSE IF amt > availableLiquidity
        THEN Plan("InsufficientLiquidity", amt, 0, FALSE)
        ELSE IF ~selfCall /\ ~isAuthorized
        THEN Plan("NotAuthorized", amt, 0, FALSE)
        ELSE IF confirm # "y" THEN Plan("Cancelled", amt, 0, FALSE)
        ELSE Plan("send", amt, sharesToBurn, FALSE)

withdrawPlan(m, pos, exists, amtIn, withdrawAll, selfCall, isAuthorized, useCurrentSupply, confirm) ==
    LET currentSupplyAssets ==
            calculateSupplyAssets(pos.supplyShares, m.totalSupplyShares,
                                  m.totalSupplyAssets)
        amt == IF withdrawAll \/ amtIn.units > currentSupplyAssets
               THEN currentSupplyAssets ELSE amtIn.units
        availableLiquidity == m.totalSupplyAssets - m.totalBorrowAssets
        sharesToBurn ==
            IF amt >= currentSupplyAssets THEN pos.supplyShares
            ELSE (amt * pos.supplyShares) \div currentSupplyAssets
    IN  IF amtIn.text = "0" /\ ~withdrawAll
        THEN Plan("InvalidAmount", 0, 0, FALSE)
        ELSE IF ~exists THEN Plan("MarketNotFound", amtIn.units, 0, FALSE)
        ELSE IF pos.supplyShares = 0 \/ currentSupplyAssets = 0
        THEN Plan("NoPosition", amtIn.units, 0, FALSE)
        ELSE IF ~withdrawAll /\ amtIn.units > currentSupplyAssets
                /\ useCurrentSupply # "y"
        THEN Plan("Cancelled", amtIn.units, 0, FALSE)
        ELSE IF amt > availableLiquidity
        THEN Plan("InsufficientLiquidity", amt, 0, FALSE)
        ELSE IF ~selfCall /\ ~isAuthorized
        THEN Plan("NotAuthorized", amt, 0, FALSE)
        ELSE IF confirm # "y" THEN Plan("Cancelled", amt, 0, FALSE)
        ELSE Plan("send", amt, sharesToBurn, FALSE)

\* A call that leaves one unit behind whenever it can.
withdrawTxAssetsLeavesDust(plan) ==
    IF plan.amt > 1 THEN plan.amt - 1 ELSE plan.amt

\* The assets argument of the withdraw call.
withdrawTxAssets(plan) == plan.amt

\* ------------------------------------------------------------ repayLoan
calculateCurrentDebt(borrowShares, totalBorrowShares, totalBorrowAssets) ==
    IF totalBorrowShares = 0 THEN 0
    ELSE (borrowShares * totalBorrowAssets) \div totalBorrowShares

repayPlan(m, pos, exists, amtIn, repayAll, useCurrentDebt, userBalance, confirm, allowance) ==
    LET debt == calculateCurrentDebt(pos.borrowShares, m.totalBorrowShares,
                                     m.totalBorrowAssets)
        amt == IF repayAll \/ (amtIn.units > debt /\ useCurrentDebt = "y")
               THEN debt ELSE amtIn.units
    IN  IF amtIn.text = "0" /\ ~repayAll
        THEN Plan("InvalidAmount", 0, 0, FALSE)
        ELSE IF ~exists THEN Plan("MarketNotFound", amtIn.units, 0, FALSE)
        ELSE IF pos.borrowShares = 0 \/ debt = 0
        THEN Plan("NoPosition", amtIn.units, 0, FALSE)
        ELSE IF userBalance < amt
        THEN Plan("InsufficientBalance", amt, 0, FALSE)
        ELSE IF confirm # "y" THEN Plan("Cancelled", amt, 0, FALSE)
        ELSE Plan("send", amt, 0, allowance < amt)

\* ----------------------------------------------------- borrowFromMarket
\* The oracle scale is written as 10^36 here whatever the token decimals.
calculateMaxBorrowable(collateralAmount, lltv, price) ==
    (collateralAmount * price * lltv) \div (WAD * (10 ^ PriceDigits))

\* The price the script computes with: ORACLE_PRICE when it is set, else
\* the oracle's answer, else (the read failed) the 1:1 default.
borrowPrice(source, envPrice, chainPrice) ==
    CASE source = "env" -> envPrice
      [] source = "oracle" -> chainPrice
      [] OTHER -> 10 ^ PriceDigits

\* borrowAmountBigInt is declared const: taking the offered maximum assigns
\* to it, which throws, and the run ends in the catch block.
\* The run without its look at the pool's liquidity.
borrowPlanSkipsLiquidity(m, pos, mp, amtIn, price, useMax, useAvailable, confirm) ==
    LET maxBorrowable == calculateMaxBorrowable(pos.collateral, mp.lltv, price)
    IN  IF amtIn.text = "0" THEN Plan("InvalidAmount", 0, 0, FALSE)
        ELSE IF ~marketExists(mp)
        THEN Plan("MarketNotFound", amtIn.units, 0, FALSE)
        ELSE IF amtIn.units > maxBorrowable
        THEN IF maxBorrowable = 0
             THEN Plan("NoBorrowCapacity", amtIn.units, 0, FALSE)
             ELSE IF useMax = "y" THEN Plan("Error", amtIn.units, 0, FALSE)
             ELSE Plan("Cancelled", amtIn.units, 0, FALSE)
        ELSE IF confirm # "y" THEN Plan("Cancelled", amtIn.units, 0, FALSE)
        ELSE Plan("send", amtIn.units, 0, FALSE)

borrowPlan(m, pos, mp, amtIn, price, useMax, useAvailable, confirm) ==
    LET maxBorrowable == calculateMaxBorrowable(pos.collateral, mp.lltv, price)
        availableLiquidity == m.totalSupplyAssets - m.totalBorrowAssets
    IN  IF amtIn.text = "0" THEN Plan("InvalidAmount", 0, 0, FALSE)
        ELSE IF ~marketExists(mp)
        THEN Plan("MarketNotFound", amtIn.units, 0, FALSE)
        ELSE IF amtIn.units > maxBorrowable
        THEN IF maxBorrowable = 0
             THEN Plan("NoBorrowCapacity", amtIn.units, 0, FALSE)
             ELSE IF useMax = "y" THEN Plan("Error", amtIn.units, 0, FALSE)
             ELSE Plan("Cancelled", amtIn.units, 0, FALSE)
        ELSE IF amtIn.units > availableLiquidity
        THEN IF availableLiquidity = 0
             THEN Plan("InsufficientLiquidity", amtIn.units, 0, FALSE)
             ELSE IF useAvailable = "y"
             THEN Plan("Error", amtIn.units, 0, FALSE)
             ELSE Plan("Cancelled", amtIn.units, 0, FALSE)
        ELSE IF confirm # "y" THEN Plan("Cancelled", amtIn.units, 0, FALSE)
        ELSE Plan("send", amtIn.units, 0, FALSE)

\* ---------------------------------------------------- liquidatePosition
calculateBorrowAssets(borrowShares, totalBorrowShares, totalBorrowAssets) ==
    IF totalBorrowShares = 0 THEN 0
    ELSE (borrowShares * totalBorrowAssets) \div totalBorrowShares

\* The boundary taken the other way: at the threshold counts as liquidatable.
isLiquidatableAtThreshold(collateralValue, borrowValue, lltv) ==
    IF borrowValue = 0 THEN FALSE
    ELSE borrowValue >= (collateralValue * lltv) \div WAD

\* Every position with a debt counts as liquidatable.
isLiquidatableWithAnyDebt(collateralValue, borrowValue, lltv) ==
    borrowValue > 0

isLiquidatable(collateralValue, borrowValue, lltv) ==
    IF borrowValue = 0 THEN FALSE
    ELSE borrowValue > (collateralValue * lltv) \div WAD

\* The maximum without the cut to the collateral the position holds.
calculateMaxLiquidationUnclamped(collateral, borrowAssets, price, scale) ==
    LET maxRepaidAssets == borrowAssets \div 2
        repaidValueWithIncentive == (maxRepaidAssets * 1050) \div 1000
    IN  [maxSeizedAssets |-> (repaidValueWithIncentive * scale) \div price,
         maxRepaidAssets |-> maxRepaidAssets]

\* Called with a non-zero oracle price only: the division throws otherwise.
calculateMaxLiquidation(collateral, borrowAssets, price, scale) ==
    LET maxRepaidAssets == borrowAssets \div 2
        repaidValueWithIncentive == (maxRepaidAssets * 1050) \div 1000
        maxSeizedAssets == (repaidValueWithIncentive * scale) \div price
    IN  [maxSeizedAssets |-> Min(maxSeizedAssets, collateral),
         maxRepaidAssets |-> maxRepaidAssets]

\* The amounts asked for, before they are held against the maximum:
\* MAX_LIQUIDATION or no amounts at all take the maximum, SEIZED_ASSETS is
\* collateral units and REPAID_SHARES is converted to assets.
liquidateWant(m, max, seizedIn, repaidSharesIn, maxLiquidation) ==
    IF maxLiquidation \/ (seizedIn.text = "0" /\ repaidSharesIn.text = "0")
    THEN [seize |-> max.maxSeizedAssets, repay |-> max.maxRepaidAssets]
    ELSE [seize |-> IF seizedIn.text # "0" THEN seizedIn.units
                    ELSE max.maxSeizedAssets,
          repay |-> IF repaidSharesIn.text # "0"
                    THEN calculateBorrowAssets(repaidSharesIn.units,
                             m.totalBorrowShares, m.totalBorrowAssets)
                    ELSE max.maxRepaidAssets]

\* The amounts passed on as they were asked for.
liquidateAmountsAsAsked(want, max) ==
    [seize |-> want.seize, repay |-> want.repay]

\* "Validate liquidation amounts": an amount above the maximum is set to it.
liquidateAmounts(want, max) ==
    [seize |-> IF want.seize > max.maxSeizedAssets THEN max.maxSeizedAssets
               ELSE want.seize,
     repay |-> IF want.repay > max.maxRepaidAssets THEN max.maxRepaidAssets
               ELSE want.repay]

liquidatePlan(m, pos, mp, price, seizedIn, repaidSharesIn, maxLiquidation, useMax, liquidatorBalance, confirm, allowance) ==
    LET scale == PriceScale(mp.loanDecimals, mp.collDecimals)
        borrowAssets ==
            calculateBorrowAssets(pos.borrowShares, m.totalBorrowShares,
                                  m.totalBorrowAssets)
        collateralValueInLoanToken == (pos.collateral * price) \div scale
        max == calculateMaxLiquidation(pos.collateral, borrowAssets, price,
                                       scale)
        want == liquidateWant(m, max, seizedIn, repaidSharesIn, maxLiquidation)
        use == liquidateAmounts(want, max)
    IN  IF pos.borrowShares = 0 \/ pos.collateral = 0
        THEN Plan("NotLiquidatable", 0, 0, FALSE)
        ELSE IF ~isLiquidatable(collateralValueInLoanToken, borrowAssets,
                                mp.lltv)
        THEN Plan("NotLiquidatable", 0, 0, FALSE)
        ELSE IF price = 0 THEN Plan("Error", 0, 0, FALSE)
        ELSE IF ~maxLiquidation /\ seizedIn.text = "0"
                /\ repaidSharesIn.text = "0" /\ useMax # "y"
        THEN Plan("Cancelled", 0, 0, FALSE)
        ELSE IF liquidatorBalance < use.repay
        THEN Plan("InsufficientBalance", use.repay, use.seize, FALSE)
        ELSE IF confirm # "y" THEN Plan("Cancelled", use.repay, use.seize, FALSE)
        ELSE Plan("send", use.repay, use.seize, allowance < use.repay)

\* The shares for the call rounded up instead of down.
repaidSharesForCallRoundsUp(m, repaidAssets) ==
    (repaidAssets * m.totalBorrowShares + m.totalBorrowAssets - 1)
        \div m.totalBorrowAssets

\* "Convert repaid assets back to shares for the liquidation call".
repaidSharesForCall(m, repaidAssets) ==
    (repaidAssets * m.totalBorrowShares) \div m.totalBorrowAssets

\* ------------------------------------------------------ supplyCollateral
\* The approve goes out before the confirmation is asked for.
\* The parameters of an unknown market name the zero address as collateral
\* token, and the reads of its symbol and decimals throw.
supplyCollateralPlan(exists, amtIn, userBalance, confirm, allowance) ==
    IF amtIn.text = "0" THEN Plan("InvalidAmount", 0, 0, FALSE)
    ELSE IF ~exists THEN Plan("Error", amtIn.units, 0, FALSE)
    ELSE IF userBalance < amtIn.units
    THEN Plan("InsufficientBalance", amtIn.units, 0, FALSE)
    ELSE IF confirm # "y"
    THEN Plan("Cancelled", amtIn.units, 0, allowance < amtIn.units)
    ELSE Plan("send", amtIn.units, 0, allowance < amtIn.units)

\* ============================================================== the runs
\* One run of a script against the current chain state: how it ended, what
\* it sent, and the market and positions it leaves.  A run that stops before
\* its transaction, or whose transaction reverts, leaves what it found.
Ran(plan, out) ==
    LET sent == plan.result = "send"
    IN  [result |-> IF ~sent THEN plan.result
                    ELSE IF out.err = "" THEN "ok" ELSE out.err,
         sent |-> sent, amt |-> plan.amt, seize |-> plan.seize,
         approve |-> plan.approve,
         market |-> IF sent THEN out.market ELSE market,
         position |-> IF sent THEN out.position ELSE position]

supplyRun(acct, amtIn, userBalance, confirm, allowance) ==
    LET plan == supplyPlan(market, marketExists(params), amtIn, userBalance,
                           confirm, allowance)
    IN  Ran(plan, LedgerSupply(market, position, created, acct, plan.amt, now))

withdrawRun(acct, amtIn, withdrawAll, selfCall, isAuthorized, useCurrentSupply, confirm) ==
    LET plan == withdrawPlan(market, position[acct], marketExists(params),
                             amtIn, withdrawAll, selfCall, isAuthorized,
                             useCurrentSupply, confirm)
    IN  Ran(plan, LedgerWithdraw(market, position, created, acct,
                                 withdrawTxAssets(plan), now))

borrowRun(acct, amtIn, source, envPrice, useMax, useAvailable, confirm) ==
    LET plan == borrowPlan(market, position[acct], params, amtIn,
                           borrowPrice(source, envPrice, oraclePrice),
                           useMax, useAvailable, confirm)
    IN  Ran(plan, LedgerBorrow(market, position, created, acct, plan.amt, now))

repayRun(acct, amtIn, repayAll, useCurrentDebt, userBalance, confirm, allowance) ==
    LET plan == repayPlan(market, position[acct], marketExists(params), amtIn,
                          repayAll, useCurrentDebt, userBalance, confirm,
                          allowance)
    IN  Ran(plan, LedgerRepay(market, position, created, acct, plan.amt, now))

supplyCollateralRun(acct, amtIn, userBalance, confirm, allowance) ==
    LET plan == supplyCollateralPlan(marketExists(params), amtIn, userBalance,
                                     confirm, allowance)
    IN  Ran(plan, LedgerSupplyCollateral(market, position, created, acct,
                                         plan.amt))

liquidateRun(borrower, seizedIn, repaidSharesIn, maxLiquidation, useMax, liquidatorBalance, confirm, allowance) ==
    LET plan == liquidatePlan(market, position[borrower], params, oraclePrice,
                              seizedIn, repaidSharesIn, maxLiquidation, useMax,
                              liquidatorBalance, confirm, allowance)
    IN  Ran(plan,
            LiquidateCall(market, position, created, params.lltv,
                          PriceScale(params.loanDecimals, params.collDecimals),
                          borrower, plan.seize,
                          repaidSharesForCall(market, plan.amt),
                          oraclePrice, now))

\* ============================================================ the inputs
Answers == {"y", "n"}

AmountInputs == {AmountIn(n) : n \in 0..MaxAmount} \cup {ZeroPointZero}

\* A balanceOf or an allowance read returns nothing or plenty.
Plenty == 10 ^ 6

\* <<balance, allowance>> of the account that pays.
Wallets == {<<0, 0>>, <<Plenty, 0>>, <<Plenty, Plenty>>}

\* <<the caller is the owner of the position, isAuthorized(owner, caller)>>
Callers == {<<TRUE, FALSE>>, <<FALSE, TRUE>>, <<FALSE, FALSE>>}

\* The answers to a first and a second prompt; a first "n" ends the run.
PromptPairs == {<<"n", "n">>, <<"y", "n">>, <<"y", "y">>}

\* <<WITHDRAW_AMOUNT or REPAY_AMOUNT, WITHDRAW_ALL or REPAY_ALL>>
AmountRequests ==
    {<<AmountIn(1), TRUE>>} \cup {<<n, FALSE>> : n \in AmountInputs}

\* <<SEIZED_ASSETS, REPAID_SHARES, MAX_LIQUIDATION>>
LiquidationRequests ==
    {<<AmountIn(0), AmountIn(0), TRUE>>}
    \cup {<<AmountIn(z), AmountIn(r), FALSE>> : z, r \in 0..MaxAmount}

PriceOne == 10 ^ PriceDigits

Prices == {0, PriceOne \div 2, 2 * PriceOne}

\* <<where borrowFromMarket takes its price from, ORACLE_PRICE>>
PriceSources ==
    {<<"env", p>> : p \in {2 * PriceOne, 4 * PriceOne}}
    \cup {<<"oracle", 0>>, <<"default", 0>>}

Lltvs == {(8 * WAD) \div 10}

Fees == {0, WAD \div 2}

DecimalPairs == {<<0, 0>>}

NoParams == [lltv |-> 0, loanDecimals |-> 0, collDecimals |-> 0]

\* ============================================================ the system
NoFlow == [net |-> 0, clean |-> TRUE, withdrew |-> FALSE]

\* No script is between its reads and its transaction.
NoPending ==
    [script |-> "none", stage |-> "idle", acct |-> "A", all |-> FALSE,
     asked |-> 0, totalSupplyAssets |-> 0, totalSupplyShares |-> 0,
     totalBorrowAssets |-> 0, totalBorrowShares |-> 0, shares |-> 0,
     collateral |-> 0, amt |-> 0, seize |-> 0, sharesForCall |-> 0,
     seen |-> {}, torn |-> FALSE, moved |-> FALSE]

NoProbe == [collateralValue |-> 0, borrowValue |-> 0, lltv |-> 0,
            done |-> FALSE, liquidatable |-> FALSE]

WithinCaps(m, p) ==
    /\ m.totalSupplyAssets <= MaxTotal
    /\ m.totalBorrowAssets <= MaxTotal
    /\ \A a \in Accounts : p[a].collateral <= MaxCollateral

Init ==
    /\ created = FALSE
    /\ params = NoParams
    /\ market = EmptyMarket
    /\ position = [a \in Accounts |-> EmptyPosition]
    /\ oraclePrice = 2 * PriceOne
    /\ now = 0
    /\ flow = NoFlow
    /\ pending = NoPending
    /\ probe = NoProbe

\* createMarket: the market comes to exist with its immutable parameters.
createMarket(lltv, decimals, fee) ==
    /\ ~created
    /\ created' = TRUE
    /\ params' = [lltv |-> lltv, loanDecimals |-> decimals[1],
                  collDecimals |-> decimals[2]]
    /\ market' = [EmptyMarket EXCEPT !.lastUpdate = now, !.fee = fee]
    /\ UNCHANGED <<position, oraclePrice, now, flow, probe, pending>>

\* Time passes (as far as the interest due keeps the totals within the caps).
Tick ==
    /\ now < MaxTime
    /\ LET a == accrue(market, position, now + 1)
       IN  WithinCaps(a.market, a.position)
    /\ now' = now + 1
    /\ UNCHANGED <<created, params, market, position, oraclePrice, flow, probe, pending>>

\* The mock oracle's owner sets a new price.
setPrice(newPrice) ==
    /\ oraclePrice' = newPrice
    /\ UNCHANGED <<created, params, market, position, now, flow, probe, pending>>

\* Interest accrual on its own.
accrueInterest ==
    /\ created
    /\ LET a == accrue(market, position, now)
       IN  market' = a.market /\ position' = a.position
    /\ UNCHANGED <<created, params, oraclePrice, now, flow, probe, pending>>

\* A run takes the chain from what it found to what it leaves.
Lands(r) ==
    /\ market' = r.market
    /\ position' = r.position
    /\ WithinCaps(r.market, r.position)
    /\ UNCHANGED <<created, params, oraclePrice, now, probe, pending>>

supplyToMarket(acct, amtIn, userBalance, confirm, allowance) ==
    LET r == supplyRun(acct, amtIn, userBalance, confirm, allowance)
    IN  /\ Lands(r)
        /\ flow' = IF r.result = "ok" /\ flow.clean
                   THEN [flow EXCEPT !.net = @ + r.amt] ELSE flow

withdrawFromMarket(acct, amtIn, withdrawAll, selfCall, isAuthorized, useCurrentSupply, confirm) ==
    LET r == withdrawRun(acct, amtIn, withdrawAll, selfCall, isAuthorized,
                         useCurrentSupply, confirm)
    IN  /\ Lands(r)
        /\ flow' = IF r.result = "ok" /\ flow.clean
                   THEN [flow EXCEPT !.net = @ - r.amt, !.withdrew = TRUE]
                   ELSE flow

borrowFromMarket(acct, amtIn, source, envPrice, useMax, useAvailable, confirm) ==
    LET r == borrowRun(acct, amtIn, source, envPrice, useMax, useAvailable,
                       confirm)
    IN  /\ Lands(r)
        /\ flow' = IF r.result = "ok"
                   THEN [net |-> 0, clean |-> FALSE, withdrew |-> FALSE]
                   ELSE flow

repayLoan(acct, amtIn, repayAll, useCurrentDebt, userBalance, confirm, allowance) ==
    /\ Lands(repayRun(acct, amtIn, repayAll, useCurrentDebt, userBalance,
                      confirm, allowance))
    /\ UNCHANGED flow

supplyCollateral(acct, amtIn, userBalance, confirm, allowance) ==
    /\ Lands(supplyCollateralRun(acct, amtIn, userBalance, confirm, allowance))
    /\ UNCHANGED flow

liquidatePosition(borrower, seizedIn, repaidSharesIn, maxLiquidation, useMax, liquidatorBalance, confirm, allowance) ==
    /\ Lands(liquidateRun(borrower, seizedIn, repaidSharesIn, maxLiquidation,
                          useMax, liquidatorBalance, confirm, allowance))
    /\ UNCHANGED flow

Next ==
    \/ \E l \in Lltvs, d \in DecimalPairs, f \in Fees : createMarket(l, d, f)
    \/ Tick
    \/ \E p \in Prices : setPrice(p)
    \/ accrueInterest
    \/ \E a \in Users, n \in AmountInputs, w \in Wallets, c \in Answers :
          supplyToMarket(a, n, w[1], c, w[2])
    \/ \E a \in Users, q \in AmountRequests, k \in Callers,
          ans \in PromptPairs :
          withdrawFromMarket(a, q[1], q[2], k[1], k[2], ans[1], ans[2])
    \* borrowFromMarket asks at most one question in a run
    \/ \E a \in Borrowers, n \in AmountInputs, src \in PriceSources,
          ans \in Answers :
          borrowFromMarket(a, n, src[1], src[2], ans, ans, ans)
    \/ \E a \in Borrowers, q \in AmountRequests, u \in Answers, w \in Wallets,
          c \in Answers : repayLoan(a, q[1], q[2], u, w[1], c, w[2])
    \/ \E a \in Borrowers, n \in AmountInputs, w \in Wallets, c \in Answers :
          supplyCollateral(a, n, w[1], c, w[2])
    \/ \E a \in Borrowers, q \in LiquidationRequests, ans \in PromptPairs,
          w \in Wallets :
          liquidatePosition(a, q[1], q[2], q[3], ans[1], w[1], ans[2], w[2])

Spec == Init /\ [][Next]_vars

\* ------------------------------------------- isLiquidatable on its own
CollateralValues == (0..MaxTotal) \cup {1000}

BorrowValues == (0..MaxTotal) \cup {799, 800, 801}

LltvValues == {0, WAD \div 2, (8 * WAD) \div 10, WAD - 1}

InitEval ==
    /\ created = FALSE
    /\ params = NoParams
    /\ market = EmptyMarket
    /\ position = [a \in Accounts |-> EmptyPosition]
    /\ oraclePrice = 2 * PriceOne
    /\ now = 0
    /\ flow = NoFlow
    /\ pending = NoPending
    /\ probe \in [collateralValue : CollateralValues,
                  borrowValue : BorrowValues, lltv : LltvValues,
                  done : {FALSE}, liquidatable : {FALSE}]

askIsLiquidatable ==
    /\ ~probe.done
    /\ probe' = [probe EXCEPT
                   !.done = TRUE,
                   !.liquidatable = isLiquidatable(probe.collateralValue,
                                                   probe.borrowValue,
                                                   probe.lltv)]
    /\ UNCHANGED <<created, params, market, position, oraclePrice, now, flow, pending>>

NextEval == askIsLiquidatable

SpecEval == InitEval /\ [][NextEval]_vars

\* ------------------------------------------------- every run of a script
SupplyRuns ==
    {supplyRun(a, n, w[1], c, w[2]) :
        a \in Users, n \in AmountInputs, w \in Wallets, c \in Answers}

WithdrawRuns ==
    {withdrawRun(a, q[1], q[2], k[1], k[2], ans[1], ans[2]) :
        a \in Users, q \in AmountRequests, k \in Callers, ans \in PromptPairs}

BorrowRuns ==
    {borrowRun(a, n, src[1], src[2], ans, ans, ans) :
        a \in Users, n \in AmountInputs, src \in PriceSources,
        ans \in Answers}

RepayRuns ==
    {repayRun(a, q[1], q[2], u, w[1], c, w[2]) :
        a \in Users, q \in AmountRequests, u \in Answers, w \in Wallets,
        c \in Answers}

LiquidateRunsOn(borrower) ==
    {liquidateRun(borrower, q[1], q[2], q[3], ans[1], w[1], ans[2], w[2]) :
        q \in LiquidationRequests, ans \in PromptPairs, w \in Wallets}

\* The four mutating ledger calls an account can make now with an amount.
LedgerCalls(acct, assets) ==
    {LedgerSupply(market, position, created, acct, assets, now),
     LedgerWithdraw(market, position, created, acct, assets, now),
     LedgerBorrow(market, position, created, acct, assets, now),
     LedgerRepay(market, position, created, acct, assets, now)}

liquidateNow(borrower, requestedRepay, requestedSeize) ==
    LedgerLiquidate(market, position, created, params.lltv,
                    PriceScale(params.loanDecimals, params.collDecimals),
                    borrower, requestedRepay, requestedSeize, oraclePrice, now)

\* What the pool can pay out: as a script reads it, and as the ledger finds
\* it once the interest due has accrued.
liquidityRead == market.totalSupplyAssets - market.totalBorrowAssets

liquidityAccrued ==
    LET m == accrue(market, position, now).market
    IN  m.totalSupplyAssets - m.totalBorrowAssets

\* The assets an account's supply shares are worth at the totals read.
supplyRead(acct) ==
    calculateSupplyAssets(position[acct].supplyShares,
                          market.totalSupplyShares, market.totalSupplyAssets)

\* The same value at the totals a ledger operation works on, the interest
\* due accrued.
supplyAccrued(acct) ==
    LET acc == accrue(market, position, now)
    IN  currentSupply(acc.position[acct], acc.market)

\* The owner runs the script himself and says yes to every prompt.
ownerWithdraws(acct, n) ==
    withdrawRun(acct, AmountIn(n), FALSE, TRUE, FALSE, "y", "y")

\* What liquidatePosition computes before it settles on its amounts.
scriptDebt(b) ==
    calculateBorrowAssets(position[b].borrowShares, market.totalBorrowShares,
                          market.totalBorrowAssets)

scriptMax(b) ==
    calculateMaxLiquidation(position[b].collateral, scriptDebt(b), oraclePrice,
        PriceScale(params.loanDecimals, params.collDecimals))

scriptLiquidatable(b) ==
    /\ position[b].borrowShares # 0
    /\ position[b].collateral # 0
    /\ oraclePrice > 0
    /\ isLiquidatable(
           (position[b].collateral * oraclePrice)
               \div PriceScale(params.loanDecimals, params.collDecimals),
           scriptDebt(b), params.lltv)

\* The position as the ledger judges it once the interest due has accrued.
ledgerDebt(b) ==
    LET a == accrue(market, position, now)
    IN  currentDebt(a.position[b], a.market)

ledgerMaxBorrowValue(b) ==
    mulDivDown(toLoanAssets(position[b].collateral, oraclePrice,
                   PriceScale(params.loanDecimals, params.collDecimals)),
               params.lltv, WAD)

\* ============================================================= the claims
\* C1: in every reachable state, whatever the fee fraction and up to full
\* utilization, the borrowed assets do not exceed the supplied assets once
\* interest has accrued.
C1_BorrowWithinSupply ==
    market.totalBorrowAssets <= market.totalSupplyAssets

\* C2: a supply, withdraw, borrow or repay that ends in an error leaves the
\* market totals, the last-accrual timestamp and every position as they were
\* before the call, although the call runs interest accrual first; the same
\* goes for every run of the four scripts that does not end well.
C2_FailedCallWritesNothing ==
    /\ \A acct \in Users, assets \in 0..(MaxTotal + 1) :
          \A out \in LedgerCalls(acct, assets) :
              out.err # "" => out.market = market /\ out.position = position
    /\ \A r \in SupplyRuns \cup WithdrawRuns \cup BorrowRuns \cup RepayRuns :
          r.result # "ok" => r.market = market /\ r.position = position

\* Interest is due and a withdrawal is turned down for lack of liquidity.
C2_FailedWithInterestDue ==
    /\ created
    /\ assetsDelta(market, now) > 0
    /\ \E acct \in Users, assets \in 1..MaxAmount :
          LedgerWithdraw(market, position, created, acct, assets,
                         now).err = "InsufficientLiquidity"

\* C3: liquidate is all-or-nothing: a call that fails leaves the collateral,
\* the borrow shares and the market totals unchanged; a call that succeeds
\* takes requestedSeize off the collateral and requestedRepay off the debt
\* in the same step.
C3_LiquidateAllOrNothing ==
    /\ \A b \in Users, repay \in 0..MaxAmount, seize \in 0..MaxAmount :
          LET out == liquidateNow(b, repay, seize)
              a == accrue(market, position, now)
          IN  IF out.err # ""
              THEN out.market = market /\ out.position = position
              ELSE /\ out.position[b].collateral =
                          position[b].collateral - seize
                   /\ out.market.totalBorrowAssets =
                          a.market.totalBorrowAssets - repay
                   /\ repay > 0
    /\ \A b \in Users : \A r \in LiquidateRunsOn(b) :
          IF r.result # "ok"
          THEN r.market = market /\ r.position = position
          ELSE /\ r.position[b].collateral = position[b].collateral - r.seize
               /\ r.market.totalBorrowAssets
                      < accrue(market, position, now).market.totalBorrowAssets

\* A position that can be liquidated: one call seizes and repays, and a
\* call for the same collateral with nothing to repay is turned down.
C3_SeizeAndRepayTogether ==
    \E b \in Users, repay \in 1..MaxAmount, seize \in 1..MaxAmount :
        /\ liquidateNow(b, repay, seize).err = ""
        /\ liquidateNow(b, 0, seize).err = "InvalidAmount"

\* C4: a position is liquidatable exactly when its debt is larger than
\* maxBorrowValue = floor(collateralValue * lltv / WAD): a debt equal to
\* maxBorrowValue is not liquidatable, one unit more is.
C4_StrictThreshold ==
    probe.done =>
        (probe.liquidatable <=>
            probe.borrowValue > (probe.collateralValue * probe.lltv) \div WAD)

\* lltv 0.8 and collateral worth 1000: a debt of 800 is found healthy.
C4_DebtAtThreshold ==
    /\ probe.done
    /\ probe.collateralValue = 1000
    /\ probe.lltv = (8 * WAD) \div 10
    /\ probe.borrowValue = 800
    /\ ~probe.liquidatable

\* C5 as stated: a withdrawal of more than totalSupplyAssets -
\* totalBorrowAssets (after accrual) fails with InsufficientLiquidity, and a
\* withdrawal of exactly the available liquidity by a holder with enough
\* shares succeeds.
C5_OverLiquidityFails ==
    created =>
        \A acct \in Users, n \in 1..MaxAmount :
            /\ n > liquidityAccrued =>
                   ownerWithdraws(acct, n).result = "InsufficientLiquidity"
            /\ (/\ n = liquidityAccrued
                /\ LedgerWithdraw(market, position, created, acct, n,
                                  now).err = "")
                   => ownerWithdraws(acct, n).result = "ok"

\* C5 amended: for an amount the account's supply position covers at the
\* totals read, a withdrawal of more than the liquidity read ends with
\* InsufficientLiquidity before anything is sent, whoever runs it and
\* whatever is answered; one of more than the liquidity left after accrual
\* ends with InsufficientLiquidity when the owner runs it and confirms; one of
\* exactly the liquidity left after accrual, with enough shares, succeeds.
\* An account without a supply position is turned away for that, and an
\* amount above the position is cut to the position first.
C5_CoveredOverLiquidityFails ==
    created =>
        \A acct \in Users, n \in 1..MaxAmount :
            /\ (supplyRead(acct) >= n /\ n > liquidityRead) =>
                   \A k \in Callers, ans \in PromptPairs :
                       LET r == withdrawRun(acct, AmountIn(n), FALSE, k[1],
                                            k[2], ans[1], ans[2])
                       IN  r.result = "InsufficientLiquidity" /\ ~r.sent
            /\ (supplyRead(acct) >= n /\ n > liquidityAccrued) =>
                   ownerWithdraws(acct, n).result = "InsufficientLiquidity"
            /\ (/\ supplyRead(acct) >= n
                /\ n = liquidityAccrued
                /\ LedgerWithdraw(market, position, created, acct, n,
                                  now).err = "")
                   => ownerWithdraws(acct, n).result = "ok"
            /\ position[acct].supplyShares = 0 =>
                   ownerWithdraws(acct, n).result = "NoPosition"
            /\ (supplyRead(acct) > 0 /\ n > supplyRead(acct)) =>
                   ownerWithdraws(acct, n).amt = supplyRead(acct)

\* A holder whose position covers more than the pool can pay: the larger
\* amount is refused, exactly the liquidity is paid out.
C5_RefusedThenPaid ==
    \E acct \in Users, n \in 1..MaxAmount :
        /\ supplyRead(acct) >= n
        /\ n > liquidityRead
        /\ liquidityRead >= 1
        /\ ownerWithdraws(acct, n).result = "InsufficientLiquidity"
        /\ ownerWithdraws(acct, liquidityRead).result = "ok"

C7_RoundingConsistent ==
    /\ LET m0 == [EmptyMarket EXCEPT !.totalSupplyAssets = 333,
                                     !.totalSupplyShares = 100]
           p0 == [a \in Accounts |->
                     IF a = "B" THEN [EmptyPosition EXCEPT !.supplyShares = 100]
                     ELSE EmptyPosition]
           s == LedgerSupply(m0, p0, TRUE, "A", 100, 0)
       IN  /\ expectedShares(m0, 100) = 30
           /\ s.err = "" /\ s.position["A"].supplyShares = 30
           /\ LedgerWithdraw(s.market, s.position, TRUE, "A", 30, 0).err = ""
    /\ created =>
        \A acct \in Users, n \in 1..(MaxTotal + 1) :
            /\ n <= supplyAccrued(acct) =>
                   LedgerWithdraw(market, position, created, acct, n,
                                  now).err # "InsufficientShares"
            /\ ( /\ n <= supplyRead(acct)
                 /\ market.fee = 0 \/ assetsDelta(market, now) = 0 ) =>
                   ownerWithdraws(acct, n).result # "InsufficientShares"
            /\ LET r == supplyRun(acct, AmountIn(n), Plenty, "y", Plenty)
               IN  (r.result = "ok" /\ assetsDelta(market, now) = 0) =>
                       r.position[acct].supplyShares =
                           position[acct].supplyShares
                               + expectedShares(market, n)

\* A holder whose shares are worth a fraction more than whole assets takes
\* out the rounded-down value of all of them.
C7_FractionalValueWithdrawn ==
    \E acct \in Users :
        /\ position[acct].supplyShares > 0
        /\ supplyRead(acct) \in 1..MaxAmount
        /\ (position[acct].supplyShares * market.totalSupplyAssets)
               % market.totalSupplyShares # 0
        /\ ownerWithdraws(acct, supplyRead(acct)).result = "ok"

\* C8: while nothing has been borrowed (so no interest has accrued),
\* totalSupplyAssets is the sum of the amounts supplied minus the sum of the
\* amounts withdrawn by the runs that succeeded, to the unit; failed runs
\* count for nothing.
C8_SupplyConserved ==
    flow.clean => market.totalSupplyAssets = flow.net

\* Supplies and at least one withdrawal have gone through and assets remain.
C8_SuppliedAndWithdrawn ==
    /\ flow.clean
    /\ flow.withdrew
    /\ flow.net >= 1
    /\ market.totalSupplyAssets = flow.net

\* C9 as stated: a liquidation asking for more than the maximum repayment
\* or the maximum seizure fails with ExceedsMaxLiquidation and nothing is
\* executed.
C9_OverLimitRejected ==
    \A b \in Users, q \in LiquidationRequests :
        LET want == liquidateWant(market, scriptMax(b), q[1], q[2], q[3])
            r == liquidateRun(b, q[1], q[2], q[3], "y", Plenty, "y", Plenty)
        IN  (/\ scriptLiquidatable(b)
             /\ \/ want.seize > scriptMax(b).maxSeizedAssets
                \/ want.repay > scriptMax(b).maxRepaidAssets)
                => r.result = "ExceedsMaxLiquidation"

\* C9 amended: liquidatePosition cuts a request above the maximum down to
\* the maximum (seizure to maxSeizedAssets, repayment to maxRepaidAssets)
\* and goes on with it; it sends the cut amounts once the liquidator has the
\* balance and confirms.  The ledger turns down every call above evaluate's
\* bounds with ExceedsMaxLiquidation, so no liquidation is executed for
\* more than the maximum.
C9_OverLimitCutToMax ==
    /\ \A b \in Users, q \in LiquidationRequests, ans \in PromptPairs,
          w \in Wallets :
          LET max == scriptMax(b)
              want == liquidateWant(market, max, q[1], q[2], q[3])
              r == liquidateRun(b, q[1], q[2], q[3], ans[1], w[1], ans[2],
                                w[2])
          IN  (/\ scriptLiquidatable(b)
               /\ \/ want.seize > max.maxSeizedAssets
                  \/ want.repay > max.maxRepaidAssets)
                  => /\ r.seize = Min(want.seize, max.maxSeizedAssets)
                     /\ r.amt = Min(want.repay, max.maxRepaidAssets)
                     /\ r.result # "NotLiquidatable"
                     /\ (w[1] = Plenty /\ ans[2] = "y") => r.sent
    /\ \A b \in Users, repay \in 1..MaxAmount, seize \in 0..MaxAmount :
          LET a == accrue(market, position, now)
              q == evaluate(a.position[b], a.market, params.lltv, oraclePrice,
                       PriceScale(params.loanDecimals, params.collDecimals))
              out == liquidateNow(b, repay, seize)
          IN  (created /\ oraclePrice > 0 /\ q.liquidatable)
                  => /\ (repay > q.maxRepay \/ seize > q.maxSeize)
                            => out.err = "ExceedsMaxLiquidation"
                     /\ out.err = ""
                            => repay <= q.maxRepay /\ seize <= q.maxSeize

\* A request above the maximum seizure goes through for the maximum.
C9_CutAndExecuted ==
    \E b \in Users, z \in 1..MaxAmount :
        LET r == liquidateRun(b, AmountIn(z), AmountIn(0), FALSE, "y", Plenty,
                              "y", Plenty)
        IN  /\ scriptLiquidatable(b)
            /\ z > scriptMax(b).maxSeizedAssets
            /\ r.result = "ok"
            /\ r.seize = scriptMax(b).maxSeizedAssets

\* C10: a liquidation against a position that is not liquidatable (debt no
\* larger than maxBorrowValue, zero debt included) ends with NotLiquidatable
\* and neither seizes collateral nor repays debt.
C10_HealthyNotLiquidated ==
    \A b \in Users :
        ledgerDebt(b) <= ledgerMaxBorrowValue(b) =>
            /\ \A r \in LiquidateRunsOn(b) :
                  /\ r.result = "NotLiquidatable"
                  /\ ~r.sent
                  /\ r.market = market
                  /\ r.position = position
            /\ \A repay \in 0..MaxAmount, seize \in 0..MaxAmount :
                  LET out == liquidateNow(b, repay, seize)
                  IN  /\ (created /\ oraclePrice > 0)
                             => out.err = "NotLiquidatable"
                      /\ out.market = market
                      /\ out.position = position

\* A borrower whose debt is exactly at the threshold is left alone.
C10_DebtAtThresholdSpared ==
    \E b \in Users :
        /\ ledgerDebt(b) >= 1
        /\ ledgerDebt(b) = ledgerMaxBorrowValue(b)
        /\ liquidateRun(b, AmountIn(0), AmountIn(0), TRUE, "y", Plenty, "y",
                        Plenty).result = "NotLiquidatable"

\* =========================================== calculateMaxLiquidation alone
MaxCollaterals == 0..(MaxTotal + 1)

MaxDebts == (0..(MaxTotal + 3)) \cup {1000}

MaxPrices == {0, 1, PriceOne \div 2, PriceOne, 2 * PriceOne}

MaxScales == {PriceScale(0, 0), PriceScale(1, 0)}

InitMax ==
    /\ created = FALSE
    /\ params = NoParams
    /\ market = EmptyMarket
    /\ position = [a \in Accounts |-> EmptyPosition]
    /\ oraclePrice = 2 * PriceOne
    /\ now = 0
    /\ flow = NoFlow
    /\ pending = NoPending
    /\ probe \in [collateral : MaxCollaterals, borrowAssets : MaxDebts,
                  price : MaxPrices, scale : MaxScales, done : {FALSE},
                  threw : {FALSE}, maxSeizedAssets : {0},
                  maxRepaidAssets : {0}]

\* One call of calculateMaxLiquidation; the division by a zero oracle price
\* throws and nothing is returned.
askMaxLiquidation ==
    /\ ~probe.done
    /\ probe' =
           IF probe.price = 0
           THEN [probe EXCEPT !.done = TRUE, !.threw = TRUE]
           ELSE LET max == calculateMaxLiquidation(probe.collateral,
                               probe.borrowAssets, probe.price, probe.scale)
                IN  [probe EXCEPT !.done = TRUE,
                                  !.maxSeizedAssets = max.maxSeizedAssets,
                                  !.maxRepaidAssets = max.maxRepaidAssets]
    /\ UNCHANGED <<created, params, market, position, oraclePrice, now, flow, pending>>

NextMax == askMaxLiquidation

SpecMax == InitMax /\ [][NextMax]_vars

\* C11: the maximum repayment is the close-factor fraction (half) of the
\* debt and the maximum seizure is the collateral that repayment times the
\* incentive buys at the price, cut to the collateral of the position: the
\* repayment never exceeds the debt and the seizure never exceeds the
\* collateral, whatever the price, the debt and the collateral.
C11_MaxWithinDebtAndCollateral ==
    (probe.done /\ ~probe.threw) =>
        /\ probe.maxRepaidAssets =
               mulDivDown(probe.borrowAssets, CloseFactor, WAD)
        /\ probe.maxSeizedAssets =
               Min(toCollateralAmount(
                       mulDivDown(probe.maxRepaidAssets, 1050, 1000),
                       probe.price, probe.scale),
                   probe.collateral)
        /\ probe.maxRepaidAssets <= probe.borrowAssets
        /\ probe.maxSeizedAssets <= probe.collateral

\* A debt whose half buys more collateral than the position holds: the
\* seizure was cut to the collateral.
C11_SeizureCutToCollateral ==
    /\ probe.done /\ ~probe.threw
    /\ probe.borrowAssets > 0 /\ probe.collateral > 0
    /\ toCollateralAmount(mulDivDown(probe.maxRepaidAssets, 1050, 1000),
                          probe.price, probe.scale) > probe.collateral
    /\ probe.maxSeizedAssets = probe.collateral

\* ------------------------------------------------ the price a run computes with
\* What liquidatePosition works out from the position and the oracle's
\* answer before it looks at any amount: the collateral value and the
\* verdict it prints.  getOraclePrice hands the answer on as it is.
liquidationAnalysis(b) ==
    LET collateralValueInLoanToken ==
            (position[b].collateral * oraclePrice)
                \div PriceScale(params.loanDecimals, params.collDecimals)
    IN  [collateralValue |-> collateralValueInLoanToken,
         liquidatable |-> isLiquidatable(collateralValueInLoanToken,
                                         scriptDebt(b), params.lltv)]

\* C12: an oracle reading that is zero or negative is rejected as
\* InvalidPrice before anything is computed from it or written: a
\* liquidation that gets such a reading for a borrower with a position
\* reaches no verdict, ends with InvalidPrice and leaves the market and the
\* positions unchanged.  (The reading of price() carries no age, so the
\* StalePrice half has nothing to be stated over.)
C12_BadPriceRejected ==
    \A b \in Users :
        ( /\ created
          /\ oraclePrice <= 0
          /\ position[b].borrowShares # 0
          /\ position[b].collateral # 0 ) =>
            /\ ~liquidationAnalysis(b).liquidatable
            /\ \A r \in LiquidateRunsOn(b) :
                  /\ r.result = "InvalidPrice"
                  /\ r.market = market /\ r.position = position

\* ================================================ shares to assets alone
\* The market monitor's conversion, used for supply and for borrow shares.
calculateUserAssets(userShares, totalShares, totalAssets) ==
    IF totalShares = 0 THEN 0
    ELSE (userShares * totalAssets) \div totalShares

ShareCounts == (0..(MaxTotal + 1)) \cup {500}

AssetCounts == (0..(MaxTotal + 2)) \cup {550}

InitShares ==
    /\ created = FALSE
    /\ params = NoParams
    /\ market = EmptyMarket
    /\ position = [a \in Accounts |-> EmptyPosition]
    /\ oraclePrice = 2 * PriceOne
    /\ now = 0
    /\ flow = NoFlow
    /\ pending = NoPending
    /\ probe \in {q \in [shares : ShareCounts, totalShares : ShareCounts,
                         totalAssets : AssetCounts, done : {FALSE},
                         borrowAssets : {0}, currentDebt : {0},
                         supplyAssets : {0}, userAssets : {0}] :
                     q.shares <= q.totalShares}

\* The scripts turn one holding of shares into assets: the liquidation
\* script and the repay script for a debt, the withdraw script for a
\* supply, the market monitor for both.
askShareValues ==
    /\ ~probe.done
    /\ probe' =
           [probe EXCEPT
              !.done = TRUE,
              !.borrowAssets =
                  calculateBorrowAssets(probe.shares, probe.totalShares,
                                        probe.totalAssets),
              !.currentDebt =
                  calculateCurrentDebt(probe.shares, probe.totalShares,
                                       probe.totalAssets),
              !.supplyAssets =
                  calculateSupplyAssets(probe.shares, probe.totalShares,
                                        probe.totalAssets),
              !.userAssets =
                  calculateUserAssets(probe.shares, probe.totalShares,
                                      probe.totalAssets)]
    /\ UNCHANGED <<created, params, market, position, oraclePrice, now, flow, pending>>

NextShares == askShareValues

SpecShares == InitShares /\ [][NextShares]_vars

\* C13: with non-zero total shares, a debt is worth
\* borrowShares * totalBorrowAssets / totalBorrowShares rounded up and a
\* supply is worth supplyShares * totalSupplyAssets / totalSupplyShares
\* rounded down; 500 borrow shares of {550 assets, 500 shares} are a debt
\* of 550.
C13_DebtUpSupplyDown ==
    (probe.done /\ probe.totalShares # 0) =>
        /\ probe.borrowAssets =
               mulDivUp(probe.shares, probe.totalAssets, probe.totalShares)
        /\ probe.currentDebt =
               mulDivUp(probe.shares, probe.totalAssets, probe.totalShares)
        /\ probe.supplyAssets =
               mulDivDown(probe.shares, probe.totalAssets, probe.totalShares)
        /\ (probe.shares = 500 /\ probe.totalAssets = 550
              /\ probe.totalShares = 500) => probe.currentDebt = 550

\* ======================================================== one repayment
\* A borrow pool, the payer's part of its shares (the rest is the other
\* user's) and the assets paid.
RepayPools ==
    {q \in [totalBorrowAssets : 0..(MaxTotal + 1),
            totalBorrowShares : 0..(MaxTotal + 1),
            shares : 0..(MaxTotal + 1), assets : 0..(MaxTotal + 1)] :
        q.shares <= q.totalBorrowShares}

repayMarket(q) ==
    [EmptyMarket EXCEPT !.totalSupplyAssets = q.totalBorrowAssets,
                        !.totalSupplyShares = q.totalBorrowAssets,
                        !.totalBorrowAssets = q.totalBorrowAssets,
                        !.totalBorrowShares = q.totalBorrowShares]

repayPositions(q) ==
    [a \in Accounts |->
        IF a = "B" THEN [EmptyPosition EXCEPT !.borrowShares = q.shares]
        ELSE IF a = "A"
        THEN [EmptyPosition EXCEPT
                 !.supplyShares = q.totalBorrowAssets,
                 !.borrowShares = q.totalBorrowShares - q.shares]
        ELSE EmptyPosition]

InitRepay ==
    /\ created = FALSE
    /\ params = NoParams
    /\ market = EmptyMarket
    /\ position = [a \in Accounts |-> EmptyPosition]
    /\ oraclePrice = 2 * PriceOne
    /\ now = 0
    /\ flow = NoFlow
    /\ pending = NoPending
    /\ probe \in {[pool |-> q, done |-> FALSE, err |-> "", burned |-> 0,
                   debtBefore |-> 0, debtAfter |-> 0, threw |-> FALSE,
                   sharesForCall |-> 0] : q \in RepayPools}

\* B's repay transaction with the assets (the repay script's call), and the
\* shares the liquidation script works out for the same assets; its
\* division throws on a pool without borrowed assets.
askRepay ==
    /\ ~probe.done
    /\ LET q == probe.pool
           m == repayMarket(q)
           p == repayPositions(q)
           out == LedgerRepay(m, p, TRUE, "B", q.assets, 0)
       IN  probe' =
               [probe EXCEPT
                  !.done = TRUE,
                  !.err = out.err,
                  !.burned = p["B"].borrowShares
                                 - out.position["B"].borrowShares,
                  !.debtBefore = currentDebt(p["B"], m),
                  !.debtAfter = currentDebt(out.position["B"], out.market),
                  !.threw = (q.totalBorrowAssets = 0),
                  !.sharesForCall =
                      IF q.totalBorrowAssets = 0 THEN 0
                      ELSE repaidSharesForCall(m, q.assets)]
    /\ UNCHANGED <<created, params, market, position, oraclePrice, now, flow, pending>>

NextRepay == askRepay

SpecRepay == InitRepay /\ [][NextRepay]_vars

\* C14: a repayment of assets burns
\* floor(assets * totalBorrowShares / totalBorrowAssets) borrow shares (the
\* count the liquidation script also passes for the assets it repays), and
\* it never lowers the payer's current debt by more than the assets paid,
\* whatever the pool and the amount.
C14_RepayRoundsDown ==
    probe.done =>
        LET q == probe.pool
        IN  /\ probe.err = "" =>
                  /\ probe.burned = mulDivDown(q.assets, q.totalBorrowShares,
                                               q.totalBorrowAssets)
                  /\ probe.debtBefore - probe.debtAfter <= q.assets
            /\ ~probe.threw =>
                  probe.sharesForCall =
                      mulDivDown(q.assets, q.totalBorrowShares,
                                 q.totalBorrowAssets)

\* A partial repayment that does not divide evenly into shares: the payer
\* keeps shares and the count burned was rounded down.
C14_PartialUnevenRepayment ==
    /\ probe.done /\ probe.err = ""
    /\ probe.pool.assets > 0
    /\ probe.burned < probe.pool.shares
    /\ probe.burned > 0
    /\ (probe.pool.assets * probe.pool.totalBorrowShares)
           % probe.pool.totalBorrowAssets # 0
    /\ probe.sharesForCall = probe.burned

\* C15: accrual is idempotent for a timestamp: accruing a second time at
\* the same current time, nothing having happened in between, finds a zero
\* assets delta and leaves the totals, every account's shares (the fee
\* recipient's too) and the last-accrual timestamp as the first accrual
\* left them.
C15_AccrueIdempotent ==
    created =>
        LET first == accrue(market, position, now)
            second == accrue(first.market, first.position, now)
        IN  /\ assetsDelta(first.market, now) = 0
            /\ second.market = first.market
            /\ second.position = first.position

\* Interest is due at a fee, and the first accrual mints fee shares.
C15_InterestAndFeeDue ==
    /\ created
    /\ assetsDelta(market, now) > 0
    /\ accrue(market, position, now).position[FeeRecipient].supplyShares
           > position[FeeRecipient].supplyShares

\* ================================================== the health factor alone
\* The ratio taken the wrong way round: debt over what may be borrowed.
calculateHealthFactorInverted(collateralValue, borrowValue, lltv) ==
    IF borrowValue = 0 THEN [infinite |-> TRUE, value |-> 0]
    ELSE LET maxBorrowValue == (collateralValue * lltv) \div WAD
         IN  [infinite |-> FALSE,
              value |-> (borrowValue * WAD) \div (maxBorrowValue + 1)]

\* calculateHealthFactor divides two floating-point numbers: the quotient
\* is the nearest number the format holds, here the nearest multiple of
\* 1/WAD.  Infinity when there is no debt.
calculateHealthFactor(collateralValue, borrowValue, lltv) ==
    IF borrowValue = 0 THEN [infinite |-> TRUE, value |-> 0]
    ELSE LET maxBorrowValue == (collateralValue * lltv) \div WAD
         IN  [infinite |-> FALSE,
              value |-> (2 * maxBorrowValue * WAD + borrowValue)
                            \div (2 * borrowValue)]

\* healthFactor a is not above healthFactor b.
NotAbove(a, b) == b.infinite \/ (~a.infinite /\ a.value <= b.value)

HealthCollaterals == 0..(MaxTotal + 1)

HealthDebts == 0..(MaxTotal + 3)

HealthPrices == {1, PriceOne \div 2, PriceOne, 2 * PriceOne}

InitHealth ==
    /\ created = FALSE
    /\ params = NoParams
    /\ market = EmptyMarket
    /\ position = [a \in Accounts |-> EmptyPosition]
    /\ oraclePrice = 2 * PriceOne
    /\ now = 0
    /\ flow = NoFlow
    /\ pending = NoPending
    /\ probe \in {q \in [collateral : HealthCollaterals,
                         more : HealthCollaterals,
                         borrowAssets : HealthDebts, price : HealthPrices,
                         lltv : {WAD \div 2, (8 * WAD) \div 10},
                         done : {FALSE},
                         before : {[infinite |-> FALSE, value |-> 0]},
                         after : {[infinite |-> FALSE, value |-> 0]},
                         liquidatableBefore : {FALSE},
                         liquidatableAfter : {FALSE}] :
                     q.collateral <= q.more}

\* The analysis of liquidatePosition for a position, and for the same debt
\* with more collateral behind it.
askHealth ==
    /\ ~probe.done
    /\ LET scale == PriceScale(0, 0)
           v1 == (probe.collateral * probe.price) \div scale
           v2 == (probe.more * probe.price) \div scale
       IN  probe' =
               [probe EXCEPT
                  !.done = TRUE,
                  !.before = calculateHealthFactor(v1, probe.borrowAssets,
                                                   probe.lltv),
                  !.after = calculateHealthFactor(v2, probe.borrowAssets,
                                                  probe.lltv),
                  !.liquidatableBefore =
                      isLiquidatable(v1, probe.borrowAssets, probe.lltv),
                  !.liquidatableAfter =
                      isLiquidatable(v2, probe.borrowAssets, probe.lltv)]
    /\ UNCHANGED <<created, params, market, position, oraclePrice, now, flow, pending>>

NextHealth == askHealth

SpecHealth == InitHealth /\ [][NextHealth]_vars

\* C16: with the debt, the price and the lltv fixed, more collateral never
\* lowers the health factor and never makes a position liquidatable that
\* was not.
C16_CollateralNeverHurts ==
    probe.done =>
        /\ NotAbove(probe.before, probe.after)
        /\ ~probe.liquidatableBefore => ~probe.liquidatableAfter

\* More collateral lifted the health factor and took the position out of
\* liquidation.
C16_CollateralRescues ==
    /\ probe.done
    /\ probe.collateral < probe.more
    /\ probe.borrowAssets > 0
    /\ probe.liquidatableBefore /\ ~probe.liquidatableAfter
    /\ ~probe.before.infinite
    /\ probe.before.value < probe.after.value

\* C17: the first supply into an empty market mints shares one for one:
\* for any assets > 0 the supplier receives exactly assets shares, and
\* those shares converted back at the totals the supply leaves are worth
\* exactly assets.
C17_FirstSupplyOneForOne ==
    /\ \A assets \in (1..(MaxTotal + 1)) \cup {1000} :
          LET out == LedgerSupply(EmptyMarket,
                                  [a \in Accounts |-> EmptyPosition], TRUE,
                                  "A", assets, 0)
          IN  /\ out.err = ""
              /\ out.position["A"].supplyShares = assets
              /\ currentSupply(out.position["A"], out.market) = assets
              /\ expectedShares(EmptyMarket, assets) = assets
    /\ (created /\ market.totalSupplyShares = 0
            /\ market.totalSupplyAssets = 0) =>
          \A acct \in Users, n \in 1..MaxAmount :
              LET r == supplyRun(acct, AmountIn(n), Plenty, "y", Plenty)
              IN  /\ r.result = "ok"
                  /\ expectedShares(market, n) = n
                  /\ r.position[acct].supplyShares = n
                  /\ calculateSupplyAssets(r.position[acct].supplyShares,
                                           r.market.totalSupplyShares,
                                           r.market.totalSupplyAssets) = n

\* An empty market some time after its creation, and a first supplier who
\* gets as many shares as the assets supplied.
C17_EmptyAgainAndSupplied ==
    /\ created
    /\ market.totalSupplyShares = 0 /\ market.totalSupplyAssets = 0
    /\ now > 0
    /\ supplyRun("A", AmountIn(MaxAmount), Plenty, "y", Plenty)
           .position["A"].supplyShares = MaxAmount

\* ------------------------------------------- zero amounts, unknown markets
\* Every run of one of the four scripts by or for an account with an amount
\* (no WITHDRAW_ALL or REPAY_ALL), whatever the wallet, the caller and the
\* answers.
RunsWith(acct, amtIn) ==
    {supplyRun(acct, amtIn, w[1], c, w[2]) : w \in Wallets, c \in Answers}
    \cup {withdrawRun(acct, amtIn, FALSE, k[1], k[2], ans[1], ans[2]) :
             k \in Callers, ans \in PromptPairs}
    \cup {borrowRun(acct, amtIn, src[1], src[2], ans, ans, ans) :
             src \in PriceSources, ans \in Answers}
    \cup {repayRun(acct, amtIn, FALSE, u, w[1], c, w[2]) :
             u \in Answers, w \in Wallets, c \in Answers}

\* The same runs by the owner, with funds, saying yes to everything.
WillingRunsWith(acct, amtIn) ==
    {supplyRun(acct, amtIn, Plenty, "y", Plenty),
     withdrawRun(acct, amtIn, FALSE, TRUE, FALSE, "y", "y"),
     borrowRun(acct, amtIn, "oracle", 0, "y", "y", "y"),
     repayRun(acct, amtIn, FALSE, "y", Plenty, "y", Plenty)}

\* C18 as stated: supply, withdraw, borrow and repay each reject a request
\* for zero assets with InvalidAmount and a request against a market that
\* was never created with MarketNotFound (a request that is both, with
\* either).
C18_ZeroAndUnknownRejected ==
    \A acct \in Users :
        /\ \A amtIn \in {AmountIn(0), ZeroPointZero} :
              \A r \in WillingRunsWith(acct, amtIn) :
                  r.result \in IF created THEN {"InvalidAmount"}
                                ELSE {"InvalidAmount", "MarketNotFound"}
        /\ ~created =>
              \A n \in 1..MaxAmount :
                  \A r \in WillingRunsWith(acct, AmountIn(n)) :
                      r.result = "MarketNotFound"

\* C18 as the scripts have it: an amount given as "0" is rejected with
\* InvalidAmount before anything else; a zero amount written any other way
\* never succeeds and changes nothing, and when it reaches the ledger it
\* is rejected there with InvalidAmount; any other request against a market
\* that was never created is rejected with MarketNotFound.  The ledger
\* itself answers MarketNotFound for an unknown market and InvalidAmount
\* for zero assets on a known one.
C18_ZeroOrUnknownNeverLands ==
    \A acct \in Users :
        /\ \A r \in RunsWith(acct, AmountIn(0)) : r.result = "InvalidAmount"
        /\ \A r \in RunsWith(acct, ZeroPointZero) :
              /\ r.result # "ok"
              /\ r.market = market /\ r.position = position
              /\ r.sent => r.result = "InvalidAmount"
        /\ ~created =>
              \A amtIn \in AmountInputs \ {AmountIn(0)} :
                  \A r \in RunsWith(acct, amtIn) :
                      r.result = "MarketNotFound"
        /\ \A out \in LedgerCalls(acct, 0) :
              out.err = IF created THEN "InvalidAmount" ELSE "MarketNotFound"
        /\ ~created =>
              \A n \in 1..MaxAmount :
                  \A out \in LedgerCalls(acct, n) :
                      out.err = "MarketNotFound"

\* In a market with supply, a zero amount written "0.0" gets past the
\* supply script to the ledger and is rejected there, while the withdraw
\* script turns the same amount down for an account without a position.
C18_ZeroPastTheScript ==
    /\ created
    /\ market.totalSupplyAssets > 0
    /\ position["B"].supplyShares = 0
    /\ LET r == supplyRun("B", ZeroPointZero, Plenty, "y", Plenty)
       IN  r.sent /\ r.result = "InvalidAmount"
    /\ withdrawRun("B", ZeroPointZero, FALSE, TRUE, FALSE, "y", "y").result
           = "NoPosition"

\* ====================================== scripts run beside other callers
\* A script reads the market, then the position, then (the liquidation
\* script) the oracle price, each with a call of its own, and sends its
\* transaction after the last prompt.  Other callers' transactions land
\* in between.  One script at a time is followed through its steps; the
\* other callers' runs land whole, by willing owners with funds.

\* The market as the pending script read it.
marketRead ==
    [market EXCEPT !.totalSupplyAssets = pending.totalSupplyAssets,
                   !.totalSupplyShares = pending.totalSupplyShares,
                   !.totalBorrowAssets = pending.totalBorrowAssets,
                   !.totalBorrowShares = pending.totalBorrowShares]

\* The position as the pending liquidation read it.
positionRead ==
    [EmptyPosition EXCEPT !.borrowShares = pending.shares,
                          !.collateral = pending.collateral]

\* What of a position the liquidation's analysis uses.
Debtor(p, b) == <<p[b].borrowShares, p[b].collateral>>

\* The pending script after a transaction has left the market m and the
\* positions p: while a liquidation holds the totals and has not yet read
\* the position, the positions that go with the totals it holds are noted.
Observe(pd, m, p) ==
    IF /\ pd.script = "liquidate" /\ pd.stage = "market"
       /\ m.totalBorrowAssets = pd.totalBorrowAssets
       /\ m.totalBorrowShares = pd.totalBorrowShares
    THEN [pd EXCEPT !.seen = @ \cup {Debtor(p, pd.acct)}]
    ELSE pd

\* Another caller's run lands.
OtherLands(r) ==
    /\ r.result = "ok"
    /\ market' = r.market
    /\ position' = r.position
    /\ WithinCaps(r.market, r.position)
    /\ pending' = Observe(pending, r.market, r.position)
    /\ UNCHANGED <<created, params, oraclePrice, now, flow, probe>>

otherSupplies(acct, n) ==
    OtherLands(supplyRun(acct, AmountIn(n), Plenty, "y", Plenty))

otherBorrows(acct, n) ==
    OtherLands(borrowRun(acct, AmountIn(n), "oracle", 0, "y", "y", "y"))

otherRepays(acct, n) ==
    OtherLands(repayRun(acct, AmountIn(n), FALSE, "y", Plenty, "y", Plenty))

otherSuppliesCollateral(acct, n) ==
    OtherLands(supplyCollateralRun(acct, AmountIn(n), Plenty, "y", Plenty))

\* ----- withdrawFromMarket, step by step
\* The account whose withdrawal is followed.
Lenders == {"A"}

withdrawReadsMarket(acct, n, withdrawAll) ==
    /\ created
    /\ pending.script = "none"
    /\ pending' = [NoPending EXCEPT
                      !.script = "withdraw", !.stage = "market",
                      !.acct = acct, !.asked = n, !.all = withdrawAll,
                      !.totalSupplyAssets = market.totalSupplyAssets,
                      !.totalSupplyShares = market.totalSupplyShares,
                      !.totalBorrowAssets = market.totalBorrowAssets]
    /\ UNCHANGED <<created, params, market, position, oraclePrice, now, flow, probe>>

\* The position is read, the checks run on what was read, and the owner
\* confirms; a run that stops here is over.
withdrawReadsPosition ==
    /\ pending.script = "withdraw" /\ pending.stage = "market"
    /\ LET plan == withdrawPlan(marketRead, position[pending.acct],
                                marketExists(params), AmountIn(pending.asked),
                                pending.all, TRUE, FALSE, "y", "y")
       IN  pending' =
               IF plan.result # "send" THEN NoPending
               ELSE [NoPending EXCEPT !.script = "withdraw",
                                      !.stage = "ready",
                                      !.acct = pending.acct,
                                      !.amt = withdrawTxAssets(plan),
                                      !.shares = plan.seize]
    /\ UNCHANGED <<created, params, market, position, oraclePrice, now, flow, probe>>

\* A withdrawal that burns the shares the script worked out from what it
\* had read.
withdrawLandingBurnsShownShares(req, m, p, t) ==
    LET a == accrue(m, p, t)
    IN  IF req.amt > a.market.totalSupplyAssets - a.market.totalBorrowAssets
        THEN Outcome("InsufficientLiquidity", m, p)
        ELSE IF a.position[req.acct].supplyShares < req.shares
        THEN Outcome("InsufficientShares", m, p)
        ELSE Outcome("",
               [a.market EXCEPT !.totalSupplyAssets = @ - req.amt,
                                !.totalSupplyShares = @ - req.shares],
               [a.position EXCEPT ![req.acct].supplyShares = @ - req.shares])

\* The withdraw call carries the assets and zero shares: the ledger works
\* the shares out when the call lands.
withdrawLanding(req, m, p, t) ==
    LedgerWithdraw(m, p, created, req.acct, req.amt, t)

withdrawSends ==
    /\ pending.script = "withdraw" /\ pending.stage = "ready"
    /\ LET out == withdrawLanding(pending, market, position, now)
           burned == position[pending.acct].supplyShares
                         - out.position[pending.acct].supplyShares
       IN  /\ market' = out.market
           /\ position' = out.position
           /\ WithinCaps(out.market, out.position)
           /\ pending' = [NoPending EXCEPT
                             !.stage = "landed",
                             !.moved = /\ out.err = ""
                                       /\ burned # pending.shares]
    /\ UNCHANGED <<created, params, oraclePrice, now, flow, probe>>

\* ----- liquidatePosition (MAX_LIQUIDATION), step by step
liquidateReadsMarket(borrower) ==
    /\ created
    /\ pending.script = "none"
    /\ pending' = [NoPending EXCEPT
                      !.script = "liquidate", !.stage = "market",
                      !.acct = borrower,
                      !.totalBorrowAssets = market.totalBorrowAssets,
                      !.totalBorrowShares = market.totalBorrowShares,
                      !.seen = {Debtor(position, borrower)}]
    /\ UNCHANGED <<created, params, market, position, oraclePrice, now, flow, probe>>

\* The position comes from a later call than the totals; torn records
\* whether the two ever belonged to one state of the ledger.
liquidateReadsPosition ==
    /\ pending.script = "liquidate" /\ pending.stage = "market"
    /\ pending' = [pending EXCEPT
                      !.stage = "position",
                      !.shares = position[pending.acct].borrowShares,
                      !.collateral = position[pending.acct].collateral,
                      !.torn = Debtor(position, pending.acct) \notin pending.seen,
                      !.seen = {}]
    /\ UNCHANGED <<created, params, market, position, oraclePrice, now, flow, probe>>

\* The oracle is read, the analysis and the amounts follow from what was
\* read, and the liquidator confirms; a run that stops here is over.
liquidatePlans ==
    /\ pending.script = "liquidate" /\ pending.stage = "position"
    /\ LET plan == liquidatePlan(marketRead, positionRead, params,
                                 oraclePrice, AmountIn(0), AmountIn(0), TRUE,
                                 "y", Plenty, "y", Plenty)
       IN  pending' =
               IF plan.result # "send" THEN NoPending
               ELSE [NoPending EXCEPT
                        !.script = "liquidate",
                        !.stage = "ready",
                        !.acct = pending.acct,
                        !.torn = pending.torn,
                        !.amt = plan.amt,
                        !.seize = plan.seize,
                        !.sharesForCall =
                            repaidSharesForCall(marketRead, plan.amt)]
    /\ UNCHANGED <<created, params, market, position, oraclePrice, now, flow, probe>>

liquidateLanding(req, m, p, t) ==
    LiquidateCall(m, p, created, params.lltv,
                  PriceScale(params.loanDecimals, params.collDecimals),
                  req.acct, req.seize, req.sharesForCall, oraclePrice, t)

liquidateSends ==
    /\ pending.script = "liquidate" /\ pending.stage = "ready"
    /\ LET out == liquidateLanding(pending, market, position, now)
       IN  /\ market' = out.market
           /\ position' = out.position
           /\ WithinCaps(out.market, out.position)
    /\ pending' = NoPending
    /\ UNCHANGED <<created, params, oraclePrice, now, flow, probe>>

NextConc ==
    \/ \E l \in Lltvs, d \in DecimalPairs : createMarket(l, d, 0)
    \/ Tick
    \/ \E p \in Prices \ {0} : setPrice(p)
    \/ \E a \in Users, n \in 1..MaxAmount : otherSupplies(a, n)
    \/ \E a \in Borrowers, n \in 1..MaxAmount : otherBorrows(a, n)
    \/ \E a \in Borrowers, n \in 1..MaxAmount : otherRepays(a, n)
    \/ \E a \in Borrowers, n \in 1..MaxCollateral :
          otherSuppliesCollateral(a, n)
    \/ \E a \in Lenders, q \in AmountRequests \ {<<AmountIn(0), FALSE>>,
                                                   <<ZeroPointZero, FALSE>>} :
          withdrawReadsMarket(a, q[1].units, q[2])
    \/ withdrawReadsPosition
    \/ withdrawSends
    \/ \E b \in Borrowers : liquidateReadsMarket(b)
    \/ liquidateReadsPosition
    \/ liquidatePlans
    \/ liquidateSends

SpecConc == Init /\ [][NextConc]_vars

C20_AnalysisOnOneState ==
    ~pending.torn

otherWithdraws(acct, n) ==
    OtherLands(withdrawRun(acct, AmountIn(n), FALSE, TRUE, FALSE, "y", "y"))

otherLiquidates(borrower) ==
    OtherLands(liquidateRun(borrower, AmountIn(0), AmountIn(0), TRUE, "y",
                            Plenty, "y", Plenty))

NextColl ==
    \/ \E l \in Lltvs, d \in DecimalPairs, f \in Fees : createMarket(l, d, f)
    \/ Tick
    \/ \E p \in Prices \ {0} : setPrice(p)
    \/ accrueInterest
    \/ \E a \in Users, n \in 1..MaxAmount : otherSupplies(a, n)
    \/ \E a \in Users, n \in 1..MaxAmount : otherWithdraws(a, n)
    \/ \E a \in Borrowers, n \in 1..MaxAmount : otherBorrows(a, n)
    \/ \E a \in Borrowers, n \in 1..MaxAmount : otherRepays(a, n)
    \/ \E a \in Users, n \in 1..MaxCollateral : otherSuppliesCollateral(a, n)
    \/ \E b \in Borrowers : otherLiquidates(b)

SpecColl == Init /\ [][NextColl]_vars

SameCollateral(p, q, accts) ==
    \A a \in accts : p[a].collateral = q[a].collateral

\* C22: supply, withdraw, borrow, repay and accrual leave every account's
\* collateral as it was; a liquidation leaves every account's collateral as
\* it was except the liquidated one's, which goes down by what is seized
\* and not below zero; posting collateral changes the poster's only.
C22_CollateralPerAccount ==
    /\ \A r \in SupplyRuns \cup WithdrawRuns \cup BorrowRuns \cup RepayRuns :
          SameCollateral(r.position, position, Accounts)
    /\ \A a \in Users, n \in 0..(MaxAmount + 1) :
          \A out \in LedgerCalls(a, n) :
              SameCollateral(out.position, position, Accounts)
    /\ \A t \in now..(MaxTime + 1) :
          SameCollateral(accrue(market, position, t).position, position,
                         Accounts)
    /\ \A b \in Users :
          /\ \A r \in LiquidateRunsOn(b) :
                /\ SameCollateral(r.position, position, Accounts \ {b})
                /\ r.position[b].collateral >= 0
                /\ r.position[b].collateral =
                      position[b].collateral
                          - (IF r.result = "ok" THEN r.seize ELSE 0)
          /\ \A rr \in 0..(MaxTotal + 1), z \in 0..(MaxCollateral + 1) :
                LET out == liquidateNow(b, rr, z)
                IN  /\ SameCollateral(out.position, position, Accounts \ {b})
                    /\ out.position[b].collateral >= 0
                    /\ out.position[b].collateral =
                          position[b].collateral
                              - (IF out.err = "" THEN z ELSE 0)
    /\ \A a \in Users, n \in AmountInputs :
          SameCollateral(
              supplyCollateralRun(a, n, Plenty, "y", Plenty).position,
              position, Accounts \ {a})

\* The borrower's collateral has been seized while another account holds
\* collateral of its own.
C22_SeizedBesideAnotherHolder ==
    /\ position["B"].borrowShares > 0
    /\ position["B"].collateral = 0
    /\ position["A"].collateral > 0

\* ===================================================== accepting a vault cap
\* A pending cap that is taken for ready whatever its validAt.
checkPendingCapStatusIgnoresTimelock(readOk, pendingCapValue, validAtTimestamp, currentTimestamp) ==
    IF ~readOk
    THEN [hasPendingCap |-> FALSE, isReady |-> FALSE, timeUntilValid |-> 0]
    ELSE IF pendingCapValue = 0 /\ validAtTimestamp = 0
    THEN [hasPendingCap |-> FALSE, isReady |-> FALSE, timeUntilValid |-> 0]
    ELSE [hasPendingCap |-> TRUE, isReady |-> TRUE, timeUntilValid |-> 0]

\* checkPendingCapStatus: what the vault's pendingCap(marketId) holds against
\* the script's clock; a failed read counts as no pending cap.
checkPendingCapStatus(readOk, pendingCapValue, validAtTimestamp, currentTimestamp) ==
    LET timeUntilValid == validAtTimestamp - currentTimestamp
    IN  IF ~readOk
        THEN [hasPendingCap |-> FALSE, isReady |-> FALSE, timeUntilValid |-> 0]
        ELSE IF pendingCapValue = 0 /\ validAtTimestamp = 0
        THEN [hasPendingCap |-> FALSE, isReady |-> FALSE, timeUntilValid |-> 0]
        ELSE IF timeUntilValid > 0
        THEN [hasPendingCap |-> TRUE, isReady |-> FALSE,
              timeUntilValid |-> timeUntilValid]
        ELSE [hasPendingCap |-> TRUE, isReady |-> TRUE, timeUntilValid |-> 0]

\* acceptCap: how the run ends and how many transactions it sent.
acceptCap(q) ==
    IF ~q.haveParams THEN [result |-> "threw", sent |-> 0]
    ELSE IF ~q.configReadOk THEN [result |-> "error", sent |-> 0]
    ELSE IF q.enabled THEN [result |-> "already enabled", sent |-> 0]
    ELSE
      LET pendingStatus ==
              checkPendingCapStatus(q.pendingReadOk, q.pendingCapValue,
                                    q.validAtTimestamp, q.currentTimestamp)
      IN  IF ~pendingStatus.hasPendingCap
          THEN [result |-> "no pending cap", sent |-> 0]
          ELSE IF ~pendingStatus.isReady
          THEN [result |-> "not ready", sent |-> 0]
          ELSE [result |-> "accepted", sent |-> 1]

CapValues == 0..2

CapTimes == 0..3

InitCap ==
    /\ created = FALSE
    /\ params = NoParams
    /\ market = EmptyMarket
    /\ position = [a \in Accounts |-> EmptyPosition]
    /\ oraclePrice = 2 * PriceOne
    /\ now = 0
    /\ flow = NoFlow
    /\ pending = NoPending
    /\ probe \in [haveParams : BOOLEAN, configReadOk : BOOLEAN,
                  enabled : BOOLEAN, pendingReadOk : BOOLEAN,
                  pendingCapValue : CapValues, validAtTimestamp : CapTimes,
                  currentTimestamp : CapTimes, done : {FALSE},
                  result : {""}, sent : {0}]

\* One run of the cap-approval script.
runAcceptCap ==
    /\ ~probe.done
    /\ LET r == acceptCap(probe)
       IN  probe' = [probe EXCEPT !.done = TRUE, !.result = r.result,
                                  !.sent = r.sent]
    /\ UNCHANGED <<created, params, market, position, oraclePrice, now, flow, pending>>

NextCap == runAcceptCap

SpecCap == InitCap /\ [][NextCap]_vars

\* C23: the cap-approval run sends at most one transaction, and sends it
\* only when the market is not yet enabled, a cap is pending (its value or
\* its validAt is not zero) and validAt is not later than the current
\* time; every other run sends nothing.
C23_AcceptOnlyWhenDue ==
    probe.done =>
        /\ probe.sent \in {0, 1}
        /\ probe.sent = 1 =>
              /\ ~probe.enabled
              /\ probe.pendingCapValue # 0 \/ probe.validAtTimestamp # 0
              /\ probe.validAtTimestamp <= probe.currentTimestamp
        /\ probe.sent = 1 <=> probe.result = "accepted"

\* A cap whose timelock ran out exactly now has been accepted.
C23_AcceptedOnTheHour ==
    /\ probe.done
    /\ probe.sent = 1
    /\ probe.validAtTimestamp = probe.currentTimestamp
    /\ probe.validAtTimestamp > 0

\* ========================================================== share totals
RECURSIVE SumOver(_, _)
SumOver(f, S) ==
    IF S = {} THEN 0
    ELSE LET x == CHOOSE y \in S : TRUE
         IN  f[x] + SumOver(f, S \ {x})

supplySharesHeld(p) == SumOver([a \in Accounts |-> p[a].supplyShares], Accounts)

borrowSharesHeld(p) == SumOver([a \in Accounts |-> p[a].borrowShares], Accounts)

\* C24: through every supply, withdraw, borrow, repay, liquidation and
\* accrual, the supply shares of all positions, the fee recipient's among
\* them, add up to totalSupplyShares, and the borrow shares of all
\* positions add up to totalBorrowShares.
C24_SharesAddUp ==
    /\ supplySharesHeld(position) = market.totalSupplyShares
    /\ borrowSharesHeld(position) = market.totalBorrowShares

\* Fee shares have been minted, a lender holds shares and a debt is open.
C24_FeeSharesAmongTheHolders ==
    /\ position[FeeRecipient].supplyShares > 0
    /\ \E a \in Users : position[a].supplyShares > 0
    /\ \E a \in Users : position[a].borrowShares > 0

\* ================================================ reordering the withdraw queue
MaxQueue == 3

MaxMoves == 2

\* The requested moves of one run, as <<current index, new index>> of each
\* market named, every new index having passed the check 0..n-1.
MovesOf(n) ==
    UNION {[1..k -> (0..(n - 1)) \X (0..(n - 1))] : k \in 1..MaxMoves}

\* Array.findIndex: the first index with the value, the moved one apart.
conflictingIndex(updateIndexes, newIndex, currentIndex) ==
    LET hits == {idx \in DOMAIN updateIndexes :
                    updateIndexes[idx] = newIndex /\ idx # currentIndex}
    IN  IF hits = {} THEN -1
        ELSE CHOOSE idx \in hits : \A other \in hits : idx <= other

\* One turn of the loop that applies a requested move to updateIndexes.
applyChange(updateIndexes, currentIndex, newIndex) ==
    IF currentIndex = newIndex THEN updateIndexes
    ELSE LET set == [updateIndexes EXCEPT ![currentIndex] = newIndex]
             c == conflictingIndex(set, newIndex, currentIndex)
         IN  IF c # -1 THEN [set EXCEPT ![c] = currentIndex] ELSE set

InitQueue ==
    /\ created = FALSE
    /\ params = NoParams
    /\ market = EmptyMarket
    /\ position = [a \in Accounts |-> EmptyPosition]
    /\ oraclePrice = 2 * PriceOne
    /\ now = 0
    /\ flow = NoFlow
    /\ pending = NoPending
    /\ \E n \in 1..MaxQueue, mv \in MovesOf(MaxQueue) :
          /\ mv \in MovesOf(n)
          /\ probe = [n |-> n, moves |-> mv, applied |-> 0,
                      updateIndexes |-> [i \in 0..(n - 1) |-> i],
                      sent |-> FALSE]

\* The next requested move is applied.
appliesChange ==
    /\ ~probe.sent
    /\ probe.applied < Len(probe.moves)
    /\ LET mv == probe.moves[probe.applied + 1]
       IN  probe' = [probe EXCEPT
                        !.applied = @ + 1,
                        !.updateIndexes = applyChange(@, mv[1], mv[2])]
    /\ UNCHANGED <<created, params, market, position, oraclePrice, now, flow, pending>>

\* The user confirms and updateWithdrawQueue(updateIndexes) is sent.
sendsUpdate ==
    /\ ~probe.sent
    /\ probe.applied = Len(probe.moves)
    /\ probe' = [probe EXCEPT !.sent = TRUE]
    /\ UNCHANGED <<created, params, market, position, oraclePrice, now, flow, pending>>

NextQueue == appliesChange \/ sendsUpdate

SpecQueue == InitQueue /\ [][NextQueue]_vars

SupplyCollateralRuns ==
    {supplyCollateralRun(a, n, w[1], c, w[2]) :
        a \in Users, n \in AmountInputs, w \in Wallets, c \in Answers}

\* C26: a run whose user does not answer 'y' has sent no transaction at
\* all, the ERC-20 approve included.
C26_NothingBeforeYes ==
    \A r \in SupplyRuns \cup WithdrawRuns \cup RepayRuns
              \cup SupplyCollateralRuns
              \cup UNION {LiquidateRunsOn(b) : b \in Users} :
        r.result = "Cancelled" => ~r.sent /\ ~r.approve

\* ------------------------------------- a token-moving run, step by step
\* repayLoan, supplyToMarket and liquidatePosition ask for confirmation and
\* then look at the allowance; depositToVault and supplyCollateral look at
\* the allowance first.
ApprovingScripts == {"repayLoan", "supplyToMarket", "liquidatePosition",
                     "depositToVault", "supplyCollateral"}

asksFirst(script) ==
    script \in {"repayLoan", "supplyToMarket", "liquidatePosition"}

\* How the approve ends: writeContract throws, waitForTransactionReceipt
\* throws, or a receipt comes back, with status success or reverted.
ApproveOutcomes == {"callThrows", "waitThrows", "success", "reverted"}

InitApprove ==
    /\ created = FALSE
    /\ params = NoParams
    /\ market = EmptyMarket
    /\ position = [a \in Accounts |-> EmptyPosition]
    /\ oraclePrice = 2 * PriceOne
    /\ now = 0
    /\ flow = NoFlow
    /\ pending = NoPending
    /\ probe \in [script : ApprovingScripts, amount : 1..MaxAmount,
                  allowance : 0..MaxAmount, outcome : ApproveOutcomes,
                  confirm : Answers, asked : {FALSE}, allowanceRead : {-1},
                  stage : {"start"}, trace : {<<>>}]

\* What follows once the allowance is settled.
afterAllowance(q) == IF q.asked THEN "main" ELSE "ask"

asksConfirmation ==
    /\ \/ probe.stage = "start" /\ asksFirst(probe.script)
       \/ probe.stage = "ask"
    /\ probe' = [probe EXCEPT
                    !.asked = TRUE,
                    !.stage = IF probe.confirm # "y" THEN "done"
                              ELSE IF probe.stage = "ask" THEN "main"
                              ELSE "read"]
    /\ UNCHANGED <<created, params, market, position, oraclePrice, now, flow, pending>>

readsAllowance ==
    /\ \/ probe.stage = "start" /\ ~asksFirst(probe.script)
       \/ probe.stage = "read"
    /\ probe' = [probe EXCEPT
                    !.allowanceRead = probe.allowance,
                    !.stage = IF probe.allowance < probe.amount
                              THEN "approve" ELSE afterAllowance(probe)]
    /\ UNCHANGED <<created, params, market, position, oraclePrice, now, flow, pending>>

\* writeContract(approve(spender, amount)); a throw ends the run in the
\* script's catch.
sendsApprove ==
    /\ probe.stage = "approve"
    /\ probe' = IF probe.outcome = "callThrows"
                THEN [probe EXCEPT !.stage = "done"]
                ELSE [probe EXCEPT !.stage = "wait",
                                   !.trace = Append(@, "approve")]
    /\ UNCHANGED <<created, params, market, position, oraclePrice, now, flow, pending>>

\* waitForTransactionReceipt: the receipt's status is not looked at.
waitsForApproval ==
    /\ probe.stage = "wait"
    /\ probe' = IF probe.outcome = "waitThrows"
                THEN [probe EXCEPT !.stage = "done"]
                ELSE [probe EXCEPT
                         !.stage = afterAllowance(probe),
                         !.trace = Append(@, "receipt"),
                         !.allowance = IF probe.outcome = "success"
                                       THEN probe.amount ELSE @]
    /\ UNCHANGED <<created, params, market, position, oraclePrice, now, flow, pending>>

\* writeContract of the repay, supply, deposit or liquidate call.
sendsMain ==
    /\ probe.stage = "main"
    /\ probe' = [probe EXCEPT !.stage = "done",
                              !.trace = Append(@, "main")]
    /\ UNCHANGED <<created, params, market, position, oraclePrice, now, flow, pending>>

NextApprove ==
    \/ asksConfirmation
    \/ readsAllowance
    \/ sendsApprove
    \/ waitsForApproval
    \/ sendsMain

SpecApprove == InitApprove /\ [][NextApprove]_vars

Sent(what) == \E i \in DOMAIN probe.trace : probe.trace[i] = what

\* C27: the main transaction goes out only when the allowance the run read
\* already covered the amount, or after an approve for the amount went out
\* and its receipt came back; and not at all when the approval failed.
C27_MainOnlyWithAllowance ==
    Sent("main") =>
        /\ \/ probe.allowanceRead >= probe.amount
           \/ \E i, j, k \in DOMAIN probe.trace :
                 /\ i < j /\ j < k
                 /\ probe.trace[i] = "approve"
                 /\ probe.trace[j] = "receipt"
                 /\ probe.trace[k] = "main"
        /\ probe.allowanceRead < probe.amount => probe.outcome = "success"
        /\ probe.allowance >= probe.amount

\* ============================================================ setupVault
\* The role addresses the environment can hold.
Roles == {"CURATOR", "ALLOCATOR", "GUARDIAN", "FEE_RECIPIENT", "SKIM_RECIPIENT"}

StepOrder ==
    <<"setCurator", "setIsAllocator", "submitGuardian", "setFeeRecipient",
      "setFee", "setSkimRecipient">>

Maybe(cond, step) == IF cond THEN <<step>> ELSE <<>>

\* A task list that puts setFee ahead of setFeeRecipient and pushes it
\* whether or not a fee recipient is configured.
setupTasksFeeFirst(cfg) ==
    Maybe("CURATOR" \in cfg, "setCurator")
    \o Maybe("ALLOCATOR" \in cfg, "setIsAllocator")
    \o Maybe("GUARDIAN" \in cfg, "submitGuardian")
    \o <<"setFee">>
    \o Maybe("FEE_RECIPIENT" \in cfg, "setFeeRecipient")
    \o Maybe("SKIM_RECIPIENT" \in cfg, "setSkimRecipient")

\* The setupTasks array as the configured addresses fill it.
setupTasks(cfg) ==
    Maybe("CURATOR" \in cfg, "setCurator")
    \o Maybe("ALLOCATOR" \in cfg, "setIsAllocator")
    \o Maybe("GUARDIAN" \in cfg, "submitGuardian")
    \o (IF "FEE_RECIPIENT" \in cfg THEN <<"setFeeRecipient", "setFee">>
        ELSE <<>>)
    \o Maybe("SKIM_RECIPIENT" \in cfg, "setSkimRecipient")

\* Where a run fails: at no step (0) or at the step of that number, in
\* writeContract (nothing goes out) or in the wait for the receipt.
InitSetup ==
    /\ created = FALSE
    /\ params = NoParams
    /\ market = EmptyMarket
    /\ position = [a \in Accounts |-> EmptyPosition]
    /\ oraclePrice = 2 * PriceOne
    /\ now = 0
    /\ flow = NoFlow
    /\ pending = NoPending
    /\ \E cfg \in SUBSET Roles, f \in 0..Len(StepOrder),
          k \in {"call", "wait"} :
          probe = [cfg |-> cfg, tasks |-> setupTasks(cfg), failAt |-> f,
                   failKind |-> k, i |-> 1, stage |-> "send",
                   threwAt |-> 0, trace |-> <<>>]

\* setupTasks[i] starts: writeContract hands the step's transaction over.
sendsStep ==
    /\ probe.stage = "send"
    /\ probe.i <= Len(probe.tasks)
    /\ probe' =
          IF probe.failAt = probe.i /\ probe.failKind = "call"
          THEN [probe EXCEPT !.stage = "done", !.threwAt = probe.i]
          ELSE [probe EXCEPT
                   !.stage = "wait",
                   !.trace = Append(@, <<"sent", probe.tasks[probe.i]>>)]
    /\ UNCHANGED <<created, params, market, position, oraclePrice, now, flow, pending>>

\* waitForTransactionReceipt returns (or throws), and the loop goes on to
\* the next task once the user has pressed ENTER.
receiptArrives ==
    /\ probe.stage = "wait"
    /\ probe' =
          IF probe.failAt = probe.i
          THEN [probe EXCEPT !.stage = "done", !.threwAt = probe.i]
          ELSE [probe EXCEPT
                   !.stage = IF probe.i = Len(probe.tasks) THEN "done"
                             ELSE "send",
                   !.i = @ + 1,
                   !.trace = Append(@, <<"receipt", probe.tasks[probe.i]>>)]
    /\ UNCHANGED <<created, params, market, position, oraclePrice, now, flow, pending>>

NextSetup == sendsStep \/ receiptArrives

SpecSetup == InitSetup /\ [][NextSetup]_vars

\* The place of a step in the fixed order.
Rank(step) == CHOOSE r \in DOMAIN StepOrder : StepOrder[r] = step

Sends == {k \in DOMAIN probe.trace : probe.trace[k][1] = "sent"}

\* C28: the steps go out in the order setCurator, setIsAllocator,
\* submitGuardian, setFeeRecipient, setFee, setSkimRecipient, each one only
\* after the receipt of the one before; setFee goes out only with a fee
\* recipient configured and after setFeeRecipient's receipt; after a step
\* has thrown nothing more goes out.
C28_StepsInOrder ==
    /\ \A k \in Sends, l \in Sends :
          k < l => Rank(probe.trace[k][2]) < Rank(probe.trace[l][2])
    /\ \A l \in Sends :
          l > 1 => /\ probe.trace[l - 1][1] = "receipt"
                   /\ l - 2 \in Sends
                   /\ probe.trace[l - 1][2] = probe.trace[l - 2][2]
    /\ \A l \in Sends :
          probe.trace[l][2] = "setFee" =>
              /\ "FEE_RECIPIENT" \in probe.cfg
              /\ l > 1
              /\ probe.trace[l - 1] = <<"receipt", "setFeeRecipient">>
    /\ probe.threwAt > 0 =>
          /\ probe.stage = "done"
          /\ \A l \in Sends :
                \E n \in 1..probe.threwAt :
                    probe.tasks[n] = probe.trace[l][2]
          /\ Cardinality(Sends) <= probe.threwAt

\* All six steps configured; setFeeRecipient's wait threw, and setFee and
\* setSkimRecipient never went out.
C28_StoppedBeforeSetFee ==
    /\ probe.cfg = Roles
    /\ probe.threwAt = 4
    /\ probe.stage = "done"
    /\ probe.trace[Len(probe.trace)] = <<"sent", "setFeeRecipient">>

\* ================================================ looking a log up, with retries
MAX_RETRIES == 5

\* How one getLogs attempt ends: a matching log, no matching log, or an
\* exception.
AttemptOutcomes == {"found", "empty", "error"}

\* A helper that sleeps after every attempt that found nothing.
sleepsBeforeRetryAlways(attempt, retries) == TRUE

\* if (attempt < retries) await sleep(RETRY_DELAY), on both paths.
sleepsBeforeRetry(attempt, retries) == attempt < retries

InitRetry ==
    /\ created = FALSE
    /\ params = NoParams
    /\ market = EmptyMarket
    /\ position = [a \in Accounts |-> EmptyPosition]
    /\ oraclePrice = 2 * PriceOne
    /\ now = 0
    /\ flow = NoFlow
    /\ pending = NoPending
    /\ \E o \in [1..MAX_RETRIES -> AttemptOutcomes] :
          probe = [outcomes |-> o, attempt |-> 1, stage |-> "query",
                   queries |-> 0, sleeps |-> 0, lastWasSleep |-> FALSE,
                   returned |-> -1]

\* One turn of the loop up to the sleep: getLogs, and the return when a
\* matching log came back (the value is told by the attempt's number).
queriesLogs ==
    /\ probe.stage = "query"
    /\ probe.attempt <= MAX_RETRIES
    /\ probe' =
          IF probe.outcomes[probe.attempt] = "found"
          THEN [probe EXCEPT !.queries = @ + 1, !.lastWasSleep = FALSE,
                             !.stage = "done", !.returned = probe.attempt]
          ELSE IF sleepsBeforeRetry(probe.attempt, MAX_RETRIES)
          THEN [probe EXCEPT !.queries = @ + 1, !.lastWasSleep = FALSE,
                             !.stage = "sleep"]
          ELSE [probe EXCEPT !.queries = @ + 1, !.lastWasSleep = FALSE,
                             !.stage = "query", !.attempt = @ + 1]
    /\ UNCHANGED <<created, params, market, position, oraclePrice, now, flow, pending>>

\* sleep(RETRY_DELAY) and on to the next attempt.
sleepsRetryDelay ==
    /\ probe.stage = "sleep"
    /\ probe' = [probe EXCEPT !.sleeps = @ + 1, !.lastWasSleep = TRUE,
                              !.stage = "query", !.attempt = @ + 1]
    /\ UNCHANGED <<created, params, market, position, oraclePrice, now, flow, pending>>

\* The loop is over without a matching log: return null.
returnsNull ==
    /\ probe.stage = "query"
    /\ probe.attempt > MAX_RETRIES
    /\ probe' = [probe EXCEPT !.stage = "done", !.returned = 0]
    /\ UNCHANGED <<created, params, market, position, oraclePrice, now, flow, pending>>

NextRetry == queriesLogs \/ sleepsRetryDelay \/ returnsNull

SpecRetry == InitRetry /\ [][NextRetry]_vars /\ WF_vars(NextRetry)

FoundAt == {n \in 1..MAX_RETRIES : probe.outcomes[n] = "found"}

\* C29: the lookup always comes to an end, after at most MAX_RETRIES
\* queries; it returns the value of the first attempt with a matching log,
\* or null when no attempt has one; it sleeps once between two attempts
\* and never after the last one, after an empty result as after an
\* exception.
C29_RetriesEnd ==
    /\ <>(probe.stage = "done")
    /\ [](/\ probe.queries <= MAX_RETRIES
          /\ probe.stage = "done" =>
                /\ ~probe.lastWasSleep
                /\ probe.sleeps = probe.queries - 1
                /\ FoundAt # {} =>
                      /\ probe.returned \in FoundAt
                      /\ \A n \in FoundAt : probe.returned <= n
                      /\ probe.queries = probe.returned
                /\ FoundAt = {} =>
                      /\ probe.returned = 0
                      /\ probe.queries = MAX_RETRIES)

\* An empty result, then an exception, then a matching log: returned on
\* the third query after two sleeps.
C29_FoundOnThirdAttempt ==
    /\ probe.stage = "done"
    /\ probe.outcomes[1] = "empty"
    /\ probe.outcomes[2] = "error"
    /\ probe.returned = 3
    /\ probe.sleeps = 2

\* =========================================================== repaying it all
\* The REPAY_ALL run of the repay script on a pool: the plan it settles on
\* from the totals and B's shares, and what its repay call leaves.
repayAllPlan(q) ==
    repayPlan(repayMarket(q), repayPositions(q)["B"], TRUE, AmountIn(1),
              TRUE, "y", Plenty, "y", Plenty)

repayAllLanding(q) ==
    LedgerRepay(repayMarket(q), repayPositions(q), TRUE, "B",
                repayAllPlan(q).amt, 0)

\* C30: on every pool in which B owes something, the REPAY_ALL run sends
\* its repayment, the repayment succeeds and B is left without borrow
\* shares.
C30_RepayAllClearsDebt ==
    LET q == probe.pool
    IN  ( /\ q.shares > 0
          /\ q.totalBorrowAssets > 0
          /\ q.totalBorrowShares <= q.totalBorrowAssets ) =>
            /\ repayAllPlan(q).result = "send"
            /\ repayAllLanding(q).err = ""
            /\ repayAllLanding(q).position["B"].borrowShares = 0
====
